---- MODULE Spec2Model ----
(***************************************************************************)
(* Convex subsets of the hyperbolic plane and their intersection, as       *)
(* implemented in flatsurf/geometry/hyperbolic.py.                         *)
(*                                                                         *)
(* Everything is computed over the rationals in the Klein model.  A        *)
(* rational is a reduced pair <<n, d>> with d > 0, a point is a pair of    *)
(* rationals <<x, y>>, and a geodesic or half space is a triple of         *)
(* rationals <<a, b, c>> for a + b*x + c*y = 0 (respectively >= 0).        *)
(***************************************************************************)
EXTENDS Integers, Sequences, FiniteSets, TLC

(***************************************************************************)
(* Exact rational arithmetic (the base ring QQ).                           *)
(***************************************************************************)
Abs(n) == IF n < 0 THEN -n ELSE n

RECURSIVE GCD(_, _)
GCD(m, n) == IF n = 0 THEN m ELSE GCD(n, m % n)

Rat(n, d) ==
  LET s == IF d < 0 THEN -1 ELSE 1
      g == GCD(Abs(n), Abs(d))
  IN  <<(s * n) \div g, (s * d) \div g>>

Zero == <<0, 1>>

One == <<1, 1>>

\* the sum over the least common denominator, which keeps the integers of
\* the model small
AddOver(p, q, g) ==
  Rat(p[1] * (q[2] \div g) + q[1] * (p[2] \div g), (p[2] \div g) * q[2])

Add(p, q) == AddOver(p, q, GCD(p[2], q[2]))

Neg(p) == <<-p[1], p[2]>>

Sub(p, q) == Add(p, Neg(q))

Mul(p, q) == Rat(p[1] * q[1], p[2] * q[2])

Div(p, q) == Rat(p[1] * q[2], p[2] * q[1])

Sgn(p) == IF p[1] > 0 THEN 1 ELSE IF p[1] < 0 THEN -1 ELSE 0

Lt(p, q) == p[1] * q[2] < q[1] * p[2]

Le(p, q) == p[1] * q[2] <= q[1] * p[2]

(***************************************************************************)
(* Sequence helpers (Python list operations used by the code).             *)
(***************************************************************************)
Last(s) == s[Len(s)]

Front(s) == SubSeq(s, 1, Len(s) - 1)

Reverse(s) == [i \in 1..Len(s) |-> s[Len(s) + 1 - i]]

\* None, for an absent point, coefficient triple or value
None == <<>>

(***************************************************************************)
(* Points.                                                                 *)
(***************************************************************************)
\* HyperbolicPoint._is_valid
point_is_valid(p) == Le(Add(Mul(p[1], p[1]), Mul(p[2], p[2])), One)

\* HyperbolicPoint.is_finite
is_finite(p) == Lt(Add(Mul(p[1], p[1]), Mul(p[2], p[2])), One)

(***************************************************************************)
(* Geodesics and half spaces.  A half space wraps its boundary geodesic,   *)
(* so both are the same triple; boundary() is the identity on triples.     *)
(***************************************************************************)
\* a chord check that lets through the lines that touch the unit circle
geodesic_is_valid_or_tangent(g) ==
  Le(Mul(g[1], g[1]), Add(Mul(g[2], g[2]), Mul(g[3], g[3])))

\* HyperbolicGeodesic._is_valid
geodesic_is_valid(g) ==
  Lt(Mul(g[1], g[1]), Add(Mul(g[2], g[2]), Mul(g[3], g[3])))

\* HyperbolicGeodesic._neg_ (coefficients only)
neg_geodesic(g) == <<Neg(g[1]), Neg(g[2]), Neg(g[3])>>

\* a + b*x + c*y
Evaluate(g, p) == Add(g[1], Add(Mul(g[2], p[1]), Mul(g[3], p[2])))

\* HyperbolicHalfSpace.__contains__
half_space_contains(h, p) == Sgn(Evaluate(h, p)) >= 0

\* HyperbolicGeodesic.__contains__
geodesic_contains(g, p) == Evaluate(g, p) = Zero

\* HyperbolicGeodesic._richcmp_ with op_EQ
geodesic_eq(s, o) ==
  IF s[2] # Zero
  THEN /\ Sgn(s[2]) = Sgn(o[2])
       /\ Mul(s[1], o[2]) = Mul(o[1], s[2])
       /\ Mul(s[3], o[2]) = Mul(o[3], s[2])
  ELSE /\ Sgn(s[3]) = Sgn(o[3])
       /\ Mul(s[1], o[3]) = Mul(o[1], s[3])
       /\ Mul(s[2], o[3]) = Mul(o[2], s[3])

\* list.index(x) of a list of half spaces (== of half spaces); 0 when absent
RECURSIVE IndexFrom(_, _, _)
IndexFrom(s, x, i) ==
  IF i > Len(s) THEN 0
  ELSE IF geodesic_eq(s[i], x) THEN i
  ELSE IndexFrom(s, x, i + 1)

\* HyperbolicGeodesic._intersection: None when the matrix has rank < 2
geodesic_intersection(s, o) ==
  LET det == Sub(Mul(s[2], o[3]), Mul(s[3], o[2]))
  IN  IF det = Zero THEN None
      ELSE <<Div(Sub(Mul(s[3], o[1]), Mul(s[1], o[3])), det),
             Div(Sub(Mul(s[1], o[2]), Mul(s[2], o[1])), det)>>

\* HyperbolicGeodesic.an_element
an_element(g) == geodesic_intersection(<<Zero, Neg(g[3]), g[2]>>, g)

\* HyperbolicGeodesic.parametrize(point, model="euclidean"): point -> lambda
parametrize_point(g, p) ==
  LET base == an_element(g)
      coordinate == IF g[3] # Zero THEN 1 ELSE 2
      tangent == <<g[3], Neg(g[2])>>
  IN  Div(Sub(p[coordinate], base[coordinate]), tangent[coordinate])

\* HyperbolicGeodesic.parametrize(lambda, model="euclidean"): lambda -> point
parametrize_lambda(g, l) ==
  LET base == an_element(g)
  IN  <<Add(base[1], Mul(l, g[3])), Add(base[2], Mul(l, Neg(g[2])))>>

\* HyperbolicGeodesic._configuration
configuration(s, o) ==
  IF geodesic_intersection(s, o) = None
  THEN LET orientation == Sgn(Add(Mul(s[2], o[2]), Mul(s[3], o[3])))
       IN  IF orientation = 0 THEN "AssertionError"
           ELSE IF geodesic_eq(s, o)
                THEN (IF orientation > 0 THEN "equal" ELSE "AssertionError")
           ELSE IF geodesic_eq(s, neg_geodesic(o))
                THEN (IF orientation < 0 THEN "negative" ELSE "AssertionError")
           ELSE IF orientation > 0 THEN "parallel"
           ELSE "anti-parallel"
  ELSE LET orientation ==
             Sgn(Sub(Neg(Mul(s[3], o[2])), Mul(Neg(s[2]), o[3])))
       IN  IF orientation = 0 THEN "AssertionError"
           ELSE IF orientation > 0 THEN "convex"
           ELSE "concave"

(***************************************************************************)
(* The order of half spaces and the merge of sorted lists.                 *)
(***************************************************************************)
normal_points_left(b, c) == Sgn(b) < 0 \/ (b = Zero /\ Sgn(c) < 0)

\* a comparison by inclusion that compares the offsets as they are given,
\* not in proportion to the normals
inclusion_cmp_unscaled(s, o) == Sgn(Sub(s[1], o[1]))

\* the comparison by inclusion of HyperbolicHalfSpace._normal_lt (cmp == 0)
inclusion_cmp(s, o) ==
  IF Mul(s[3], o[3]) # Zero
  THEN Sgn(Mul(s[3], o[3])) * Sgn(Sub(Mul(s[1], o[3]), Mul(o[1], s[3])))
  ELSE Sgn(Mul(s[2], o[2])) * Sgn(Sub(Mul(s[1], o[2]), Mul(o[1], s[2])))

\* HyperbolicHalfSpace._normal_lt
normal_lt(s, o) ==
  IF normal_points_left(s[2], s[3]) # normal_points_left(o[2], o[3])
  THEN normal_points_left(s[2], s[3])
  ELSE IF Mul(s[2], o[2]) = Zero
       THEN (IF s[2] = o[2] THEN inclusion_cmp(s, o) < 0 ELSE o[2] = Zero)
       ELSE LET cmp == Sgn(Mul(s[2], o[2]))
                       * Sgn(Sub(Mul(s[3], o[2]), Mul(o[3], s[2])))
            IN  IF cmp = 0 THEN inclusion_cmp(s, o) < 0 ELSE cmp < 0

\* the base case count == 2 of HyperbolicPlane._merge_sort
RECURSIVE merge_two(_, _, _)
merge_two(A, B, merged) ==
  IF A = <<>> \/ B = <<>> THEN A \o B \o Reverse(merged)
  ELSE IF normal_lt(Last(A), Last(B))
       THEN merge_two(A, Front(B), Append(merged, Last(B)))
       ELSE merge_two(Front(A), B, Append(merged, Last(A)))

\* HyperbolicPlane._merge_sort
RECURSIVE merge_sort(_)
merge_sort(half_spaces) ==
  LET count == Len(half_spaces)
  IN  IF count = 0 THEN <<>>
      ELSE IF count = 1 THEN half_spaces[1]
      ELSE IF count = 2 THEN merge_two(half_spaces[1], half_spaces[2], <<>>)
      ELSE merge_sort(<<merge_sort(SubSeq(half_spaces, 1, count \div 2)),
                        merge_sort(SubSeq(half_spaces, count \div 2 + 1, count))>>)

\* HyperbolicPlane._reduce_trivially_redundant
RECURSIVE reduce_trivially_redundant_from(_, _, _)
reduce_trivially_redundant_from(half_spaces, i, reduced) ==
  IF i > Len(half_spaces) THEN reduced
  ELSE LET h == half_spaces[i]
           r == Last(reduced)
           parallel == /\ reduced # <<>>
                       /\ Mul(h[3], r[2]) = Mul(r[3], h[2])
                       /\ Sgn(h[2]) = Sgn(r[2])
                       /\ Sgn(h[3]) = Sgn(r[3])
       IN  reduce_trivially_redundant_from(half_spaces, i + 1,
             IF parallel THEN reduced ELSE Append(reduced, h))

reduce_trivially_redundant(half_spaces) ==
  reduce_trivially_redundant_from(half_spaces, 1, <<>>)

(***************************************************************************)
(* Convex sets as values.  kind is one of "empty", "point", "geodesic",    *)
(* "half_space", "polygon", "edge", or "error" for a raised exception.     *)
(***************************************************************************)
Value(kind, geodesic, point, start, end, half_spaces, error) ==
  [kind |-> kind, geodesic |-> geodesic, point |-> point, start |-> start,
   end |-> end, half_spaces |-> half_spaces, error |-> error]

\* HyperbolicPlane.empty_set
empty_set == Value("empty", None, None, None, None, <<>>, "")

\* HyperbolicPlane.point(x, y, model="klein")
PointValue(p) == Value("point", None, p, None, None, <<>>, "")

\* HyperbolicPlane.geodesic(a, b, c, model="klein")
GeodesicValue(g) == Value("geodesic", g, None, None, None, <<>>, "")

\* HyperbolicPlane.half_space(a, b, c, model="klein")
HalfSpaceValue(h) == Value("half_space", h, None, None, None, <<>>, "")

\* HyperbolicConvexPolygon(half_spaces)
PolygonValue(half_spaces) ==
  Value("polygon", None, None, None, None, half_spaces, "")

\* HyperbolicPlane.segment(geodesic, start, end)
EdgeValue(g, start, end) == Value("edge", g, None, start, end, <<>>, "")

\* the Python list [self, other] that HyperbolicConvexSet.intersection
\* passes to HyperbolicPlane.intersection as its only operand
ListValue(items) == Value("list", None, None, None, None, items, "")

\* a raised exception
ErrorValue(e) == Value("error", None, None, None, None, <<>>, e)

\* the outcome of a helper that returns a list or raises
ListOk(l) == [error |-> "", list |-> l]

ListError(e) == [error |-> e, list |-> <<>>]

(***************************************************************************)
(* _half_spaces() of each kind of convex set.                              *)
(***************************************************************************)
\* HyperbolicGeodesic._half_spaces: left and right half space, merged
geodesic_half_spaces(g) == merge_sort(<< <<g>>, <<neg_geodesic(g)>> >>)

\* HyperbolicPoint._half_spaces (the coefficients handed to half_space())
point_half_spaces_unsorted(p) ==
  IF is_finite(p)
  THEN << <<Neg(p[1]), One, Zero>>,
          <<Neg(p[2]), Zero, One>>,
          <<Add(p[1], p[2]), Neg(One), Neg(One)>> >>
  ELSE << <<Zero, Neg(p[2]), p[1]>>,
          <<Sub(Neg(Mul(p[1], p[1])), Mul(p[2], p[2])),
            Add(p[2], p[1]), Sub(p[2], p[1])>> >>

\* wrap each element of a list into a list of its own
Singletons(l) == [i \in 1..Len(l) |-> <<l[i]>>]

\* HyperbolicPoint._half_spaces
point_half_spaces(p) ==
  LET hs == point_half_spaces_unsorted(p)
  IN  IF \E i \in 1..Len(hs) : ~geodesic_is_valid(hs[i])
      THEN ListError("ValueError")
      ELSE ListOk(merge_sort(Singletons(hs)))

\* the half spaces HyperbolicEdge._half_spaces appends for start and end
edge_end_half_spaces(g, start, end) ==
  (IF start = None THEN <<>>
   ELSE LET b == g[3]
            c == Neg(g[2])
        IN  << <<Sub(Neg(Mul(b, start[1])), Mul(c, start[2])), b, c>> >>)
  \o
  (IF end = None THEN <<>>
   ELSE LET b == Neg(g[3])
            c == g[2]
        IN  << <<Sub(Neg(Mul(b, end[1])), Mul(c, end[2])), b, c>> >>)

\* HyperbolicEdge._half_spaces
edge_half_spaces(g, start, end) ==
  LET extra == edge_end_half_spaces(g, start, end)
  IN  IF \E i \in 1..Len(extra) : ~geodesic_is_valid(extra[i])
      THEN ListError("ValueError")
      ELSE ListOk(geodesic_half_spaces(g) \o extra)

\* subset._half_spaces() for an operand of HyperbolicPlane.intersection:
\* the empty set inherits HyperbolicConvexSet._half_spaces, which raises;
\* a polygon has no parent and its method is shadowed by its list
half_spaces_of(v) ==
  CASE v.kind = "half_space" -> ListOk(<<v.geodesic>>)
    [] v.kind = "geodesic" -> ListOk(geodesic_half_spaces(v.geodesic))
    [] v.kind = "point" -> point_half_spaces(v.point)
    [] v.kind = "edge" -> edge_half_spaces(v.geodesic, v.start, v.end)
    [] v.kind = "empty" -> ListError("NotImplementedError")
    [] v.kind = "polygon" -> ListError("TypeError")
    [] OTHER -> ListError(v.error)

(***************************************************************************)
(* HyperbolicEdge._restrict_to_disk                                        *)
(***************************************************************************)
\* a restriction that keeps the endpoints as they are given
restrict_endpoints_unchecked(g, start0, end0, l_start, l_end) ==
  IF start0 = None /\ end0 = None THEN GeodesicValue(g)
  ELSE EdgeValue(g, start0, end0)

\* the part after both endpoints have been parametrized and compared
restrict_endpoints(g, start0, end0, l_start, l_end) ==
  LET start_out == /\ start0 # None
                   /\ Sgn(l_start) > 0
                   /\ ~is_finite(start0)
      start == IF start0 # None /\ is_finite(start0) THEN start0 ELSE None
      end_out == /\ end0 # None
                 /\ Sgn(l_end) < 0
                 /\ ~is_finite(end0)
      end == IF end0 # None /\ is_finite(end0) THEN end0 ELSE None
  IN  IF start_out
      THEN (IF point_is_valid(start0) THEN PointValue(start0) ELSE empty_set)
      ELSE IF end_out
      THEN (IF point_is_valid(end0) THEN PointValue(end0) ELSE empty_set)
      ELSE IF start = None /\ end = None THEN GeodesicValue(g)
      ELSE IF start # None /\ end # None /\ start = end
      THEN ErrorValue("ValueError")
      ELSE EdgeValue(g, start, end)

restrict_to_disk(g, start, end) ==
  IF ~geodesic_is_valid(g) THEN empty_set
  ELSE IF (start # None /\ ~geodesic_contains(g, start))
          \/ (end # None /\ ~geodesic_contains(g, end))
  THEN ErrorValue("ValueError")
  ELSE LET l_start == IF start = None THEN Zero ELSE parametrize_point(g, start)
           l_end == IF end = None THEN Zero ELSE parametrize_point(g, end)
       IN  IF start # None /\ end # None /\ l_start = l_end
           THEN (IF point_is_valid(start) THEN PointValue(start) ELSE empty_set)
           ELSE IF start # None /\ end # None /\ Lt(l_end, l_start)
           THEN restrict_endpoints(g, start, None, l_start, l_end)
           ELSE restrict_endpoints(g, start, end, l_start, l_end)

(***************************************************************************)
(* HyperbolicPlane._reduce_euclidean_non_empty                             *)
(***************************************************************************)
\* a closed interval of the real line as <<lower, upper>>; None is infinite
real_line == <<None, None>>

IntervalIsEmpty(interval) ==
  interval[1] # None /\ interval[2] # None /\ Lt(interval[2], interval[1])

\* intersect with [l, oo) when above, with (-oo, l] otherwise
Constrain(interval, l, above) ==
  IF above
  THEN <<IF interval[1] = None \/ Lt(interval[1], l) THEN l ELSE interval[1],
         interval[2]>>
  ELSE <<interval[1],
         IF interval[2] = None \/ Lt(l, interval[2]) THEN l ELSE interval[2]>>

\* the loop over the half spaces that precede random_half_spaces[k]:
\* the interval of lambda left on the boundary of random_half_spaces[k];
\* empty is TRUE when the code returns the empty set from inside the loop
NoInterval == [empty |-> TRUE, interval |-> real_line]

RECURSIVE constrain_boundary(_, _, _, _)
constrain_boundary(random_half_spaces, k, j, interval) ==
  IF j >= k THEN [empty |-> FALSE, interval |-> interval]
  ELSE LET boundary == random_half_spaces[k]
           constraining == random_half_spaces[j]
           intersection == geodesic_intersection(boundary, constraining)
       IN  IF intersection = None
           THEN IF ~half_space_contains(constraining,
                                        parametrize_lambda(boundary, Zero))
                THEN NoInterval
                ELSE constrain_boundary(random_half_spaces, k, j + 1, interval)
           ELSE LET l == parametrize_point(boundary, intersection)
                    above == half_space_contains(constraining,
                               parametrize_lambda(boundary, Add(l, One)))
                    next == Constrain(interval, l, above)
                IN  IF IntervalIsEmpty(next) THEN NoInterval
                    ELSE constrain_boundary(random_half_spaces, k, j + 1, next)

\* the values interval.an_element() may return; they include the one the
\* library picks (0 on the line, an end point shifted by one on a half
\* line, the lower end point of a bounded interval)
an_element_choices(interval) ==
  IF interval[1] = None /\ interval[2] = None THEN {Zero, One}
  ELSE IF interval[1] = None THEN {interval[2], Sub(interval[2], One)}
  ELSE IF interval[2] = None THEN {interval[1], Add(interval[1], One)}
  ELSE {interval[1], interval[2],
        Div(Add(interval[1], interval[2]), <<2, 1>>)}

\* whether intersection is contained in all of random_half_spaces
RECURSIVE in_all(_, _, _)
in_all(random_half_spaces, j, p) ==
  IF j > Len(random_half_spaces) THEN TRUE
  ELSE IF ~half_space_contains(random_half_spaces[j], p) THEN FALSE
  ELSE in_all(random_half_spaces, j + 1, p)

\* "Extend the point to a segment": a half space value, a point value, the
\* empty set, or an AssertionError
RECURSIVE extend_point(_, _, _, _)
extend_point(half_spaces, random_half_spaces, point, i) ==
  IF i > Len(half_spaces)
  THEN (IF Lt(One, Add(Mul(point[1], point[1]), Mul(point[2], point[2])))
        THEN empty_set
        ELSE PointValue(point))
  ELSE LET half_space == half_spaces[i]
           following == half_spaces[(i % Len(half_spaces)) + 1]
           intersection == geodesic_intersection(half_space, following)
       IN  IF ~geodesic_contains(half_space, point)
           THEN extend_point(half_spaces, random_half_spaces, point, i + 1)
           ELSE IF half_space_contains(following,
                     parametrize_lambda(half_space,
                       Add(parametrize_point(half_space, point), One)))
           THEN HalfSpaceValue(half_space)
           ELSE IF intersection = None THEN ErrorValue("AssertionError")
           ELSE IF intersection = point
           THEN extend_point(half_spaces, random_half_spaces, point, i + 1)
           ELSE IF in_all(random_half_spaces, 1, intersection)
           THEN HalfSpaceValue(half_space)
           ELSE extend_point(half_spaces, random_half_spaces, point, i + 1)

(***************************************************************************)
(* HyperbolicPlane._reduce_euclidean                                       *)
(***************************************************************************)
\* whether B is appended to required_half_spaces: "yes", "no" or the error
required_by(AB, BC, AC, A, bc) ==
  IF "AssertionError" \in {AB, BC, AC} THEN "AssertionError"
  ELSE IF AB = "convex"
  THEN (IF BC = "concave"
        THEN (IF AC \in {"equal", "concave"} THEN "yes"
              ELSE "AssertionError")
        ELSE IF BC = "convex"
        THEN (IF AC = "negative"
                 \/ (half_space_contains(A, bc) /\ ~geodesic_contains(A, bc))
              THEN "yes" ELSE "no")
        ELSE IF BC = "negative" THEN "yes"
        ELSE "NotImplementedError")
  ELSE IF AB = "negative" THEN "yes"
  ELSE IF AB = "anti-parallel" THEN "yes"
  ELSE "NotImplementedError"

\* the configurations AB, BC and AC, and the point where B and C meet
euclidean_required(A, B, C) ==
  required_by(configuration(A, B), configuration(B, C), configuration(A, C),
              A, geodesic_intersection(B, C))

\* the while loop over the rotated list; rotated[j] is the next B
RECURSIVE reduce_euclidean_loop(_, _, _)
\* the end of a round, once it is known whether B is required
reduce_euclidean_round(rotated, j, required_half_spaces, required) ==
  IF required = "yes"
  THEN reduce_euclidean_loop(rotated, j + 1,
                             Append(required_half_spaces, rotated[j]))
  ELSE IF required = "no"
  THEN reduce_euclidean_loop(rotated, j + 1, required_half_spaces)
  ELSE ListError(required)

reduce_euclidean_loop(rotated, j, required_half_spaces) ==
  IF j > Len(rotated) THEN ListOk(required_half_spaces)
  ELSE reduce_euclidean_round(rotated, j, required_half_spaces,
         euclidean_required(Last(required_half_spaces), rotated[j],
                            IF j < Len(rotated) THEN rotated[j + 1]
                            ELSE required_half_spaces[1]))

reduce_euclidean(half_spaces, boundary) ==
  LET index == IndexFrom(half_spaces, boundary, 1)
      rotated == SubSeq(half_spaces, index, Len(half_spaces))
                 \o SubSeq(half_spaces, 1, index - 1)
  IN  IF index = 0 THEN ListError("ValueError")
      ELSE reduce_euclidean_loop(rotated, 2, <<rotated[1]>>)

(***************************************************************************)
(* The call stack.  Each call of HyperbolicPlane._reduce that is under way *)
(* has one frame with its local variables; pc is its position:             *)
(*   "shuffle"  before shuffle(random_half_spaces)                         *)
(*   "loop"     in the loop over random_half_spaces, at index k            *)
(*   "disk"     in the loop of _reduce_unit_disk, at index i               *)
(*   "neg"      evaluating -segment for the segment of index i             *)
(***************************************************************************)
\* the deepest nesting of calls the model follows (the recursion limit)
MaxDepth == 2

\* is_point and is_segment are True, False or an object
Flag(flag, value) == [flag |-> flag, value |-> value]

True == Flag("True", empty_set)

False == Flag("False", empty_set)

Object(v) == Flag("object", v)

Frame(pc, half_spaces, random_half_spaces, k, point, i, is_empty, is_point, is_segment, required_half_spaces, segment) ==
  [pc |-> pc, half_spaces |-> half_spaces,
   random_half_spaces |-> random_half_spaces, k |-> k, point |-> point,
   i |-> i, is_empty |-> is_empty, is_point |-> is_point,
   is_segment |-> is_segment, required_half_spaces |-> required_half_spaces,
   segment |-> segment]

\* what a step leaves: the stack of a computation under way, or its result
Running(stack) == [finished |-> FALSE, stack |-> stack, value |-> empty_set]

Finished(v) == [finished |-> TRUE, stack |-> <<>>, value |-> v]

\* an exception is caught nowhere: it ends every call on the stack
Raise(e) == Finished(ErrorValue(e))

\* a comparison of is_segment with segment itself, not with -segment
segment_eq_unnegated(is_segment, negated) ==
  /\ is_segment.flag = "object"
  /\ is_segment.value.kind = "geodesic"
  /\ negated.kind = "geodesic"
  /\ geodesic_eq(is_segment.value.geodesic, neg_geodesic(negated.geodesic))

\* is_segment == -segment; an edge and a polygon compare by identity only
segment_eq(is_segment, negated) ==
  /\ is_segment.flag = "object"
  /\ is_segment.value.kind = "geodesic"
  /\ negated.kind = "geodesic"
  /\ geodesic_eq(is_segment.value.geodesic, negated.geodesic)

\* the frame at the start of _reduce_unit_disk
disk_frame(half_spaces) ==
  Frame("disk", half_spaces, <<>>, 0, None, 1, TRUE, True, True, <<>>,
        empty_set)

\* a value is returned to the frames below: the caller evaluated -segment
\* in _reduce_unit_disk and goes on with the comparison
RECURSIVE Deliver(_, _)
Deliver(below, v) ==
  IF below = <<>> THEN Finished(v)
  ELSE LET f == Last(below)
       IN  IF segment_eq(f.is_segment, v)
           THEN Deliver(Front(below), f.segment)
           ELSE Running(Append(Front(below),
                  [f EXCEPT !.pc = "disk", !.i = f.i + 1,
                            !.is_segment = False,
                            !.required_half_spaces =
                               Append(f.required_half_spaces,
                                      f.half_spaces[f.i]),
                            !.segment = empty_set]))

\* _reduce from the value of boundary on
enter_unit_disk(below, reduced) ==
  IF reduced.error # "" THEN Raise(reduced.error)
  ELSE Running(Append(below, disk_frame(reduced.list)))

after_boundary(below, half_spaces, boundary) ==
  IF boundary.kind = "error" THEN Raise(boundary.error)
  ELSE IF boundary.kind # "half_space" THEN Deliver(below, boundary)
  ELSE enter_unit_disk(below, reduce_euclidean(half_spaces, boundary.geodesic))

\* a _reduce that cannot model a single half space either
reduce_from_one(below, half_spaces) ==
  IF Len(half_spaces) <= 1 THEN Raise("NotImplementedError")
  ELSE Running(Append(below,
         Frame("shuffle", half_spaces, <<>>, 0, None, 0, TRUE, True, True,
               <<>>, empty_set)))

\* HyperbolicPlane._reduce, up to the shuffle
reduce_from(below, half_spaces) ==
  IF half_spaces = <<>> THEN Raise("NotImplementedError")
  ELSE IF Len(half_spaces) = 1
  THEN after_boundary(below, half_spaces, HalfSpaceValue(half_spaces[1]))
  ELSE Running(Append(below,
         Frame("shuffle", half_spaces, <<>>, 0, None, 0, TRUE, True, True,
               <<>>, empty_set)))

reduce(below, sorted) == reduce_from(below, reduce_trivially_redundant(sorted))

\* shuffle(random_half_spaces) and the starting point
shuffle_step(stack, permutation) ==
  LET f == Last(stack)
      random_half_spaces ==
        [j \in 1..Len(f.half_spaces) |-> f.half_spaces[permutation[j]]]
  IN  Running(Append(Front(stack),
        [f EXCEPT !.pc = "loop", !.random_half_spaces = random_half_spaces,
                  !.k = 1, !.point = an_element(random_half_spaces[1])]))

\* one round of the loop "for half_space in random_half_spaces"; l is the
\* element of the interval that is picked when the point has to move
choices_in(c) == IF c.empty THEN {Zero} ELSE an_element_choices(c.interval)

loop_choices(f) ==
  IF half_space_contains(f.random_half_spaces[f.k], f.point) THEN {Zero}
  ELSE choices_in(constrain_boundary(f.random_half_spaces, f.k, 1, real_line))

loop_step(stack, l) ==
  LET f == Last(stack)
      half_space == f.random_half_spaces[f.k]
      c == constrain_boundary(f.random_half_spaces, f.k, 1, real_line)
  IN  IF half_space_contains(half_space, f.point)
      THEN Running(Append(Front(stack), [f EXCEPT !.k = f.k + 1]))
      ELSE IF c.empty THEN Deliver(Front(stack), empty_set)
      ELSE Running(Append(Front(stack),
             [f EXCEPT !.k = f.k + 1,
                       !.point = parametrize_lambda(half_space, l)]))

\* the rest of _reduce_euclidean_non_empty and _reduce_euclidean
extend_step(stack) ==
  LET f == Last(stack)
  IN  after_boundary(Front(stack), f.half_spaces,
        extend_point(f.half_spaces, f.random_half_spaces, f.point, 1))

\* the end of _reduce_unit_disk, after its loop
disk_result(stack) ==
  LET f == Last(stack)
  IN  IF f.is_empty THEN Deliver(Front(stack), empty_set)
      ELSE IF f.is_point.flag = "object"
      THEN Deliver(Front(stack), f.is_point.value)
      ELSE IF f.is_point.flag = "True"
      THEN Deliver(Front(stack), Value("bool", None, None, None, None, <<>>, ""))
      ELSE IF Len(f.required_half_spaces) = 0 THEN Raise("NotImplementedError")
      ELSE IF Len(f.required_half_spaces) = 1
      THEN Deliver(Front(stack), HalfSpaceValue(f.required_half_spaces[1]))
      ELSE Deliver(Front(stack), PolygonValue(f.required_half_spaces))

\* -segment for an edge: HyperbolicConvexSet._neg_ intersects the negated
\* half spaces of the edge, a nested call of HyperbolicPlane.intersection
negate_half_spaces(stack, segment, half_spaces) ==
  LET f == Last(stack)
      negated == [j \in 1..Len(half_spaces.list) |->
                    neg_geodesic(half_spaces.list[j])]
      waiting == Append(Front(stack),
                   [f EXCEPT !.pc = "neg", !.is_empty = FALSE,
                             !.is_point = False, !.segment = segment])
  IN  IF half_spaces.error # "" THEN Raise(half_spaces.error)
      ELSE IF Len(stack) >= MaxDepth THEN Raise("RecursionError")
      ELSE reduce(waiting, merge_sort(Singletons(negated)))

negate_edge(stack, segment) ==
  negate_half_spaces(stack, segment,
    edge_half_spaces(segment.geodesic, segment.start, segment.end))

\* the body of the loop from the value of segment on
disk_segment(stack, B, segment) ==
  LET f == Last(stack)
      next == [f EXCEPT !.i = f.i + 1]
  IN  IF segment.kind = "error" THEN Raise(segment.error)
      ELSE IF segment.kind = "empty" THEN Running(Append(Front(stack), next))
      ELSE IF segment.kind = "point"
      THEN (IF f.is_point.flag = "False"
            THEN Running(Append(Front(stack), [next EXCEPT !.is_empty = FALSE]))
            ELSE IF f.is_point.flag = "object" /\ f.is_point.value # segment
            THEN Raise("AssertionError")
            ELSE Running(Append(Front(stack),
                   [next EXCEPT !.is_empty = FALSE,
                                !.is_point = Object(segment)])))
      ELSE IF f.is_segment.flag = "True"
      THEN Running(Append(Front(stack),
             [next EXCEPT !.is_empty = FALSE, !.is_point = False,
                          !.is_segment = Object(segment),
                          !.required_half_spaces =
                             Append(f.required_half_spaces, B)]))
      ELSE IF segment.kind = "geodesic"
      THEN Deliver(Append(Front(stack),
                     [f EXCEPT !.pc = "neg", !.is_empty = FALSE,
                               !.is_point = False, !.segment = segment]),
                   GeodesicValue(neg_geodesic(segment.geodesic)))
      ELSE negate_edge(stack, segment)

\* one round of the loop of _reduce_unit_disk, or what follows the loop
disk_step(stack) ==
  LET f == Last(stack)
      n == Len(f.half_spaces)
      A == f.half_spaces[((f.i + n - 2) % n) + 1]
      B == f.half_spaces[f.i]
      C == f.half_spaces[(f.i % n) + 1]
  IN  IF f.i > n THEN disk_result(stack)
      ELSE disk_segment(stack, B,
             restrict_to_disk(B, geodesic_intersection(A, B),
                              geodesic_intersection(B, C)))

(***************************************************************************)
(* The client: a plan is a short sequence of calls of                      *)
(* HyperbolicPlane.intersection whose values are collected in results.     *)
(*   "twice"  intersection of the operands, then the same call again       *)
(*   "swap"   intersection(A, B), then intersection(B, A)                  *)
(*   "assoc"  intersection(intersection(A, B), C), then                    *)
(*            intersection(A, intersection(B, C))                          *)
(***************************************************************************)
Q(n) == <<n, 1>>

G(a, b, c) == <<Q(a), Q(b), Q(c)>>

\* half spaces of the plane: x >= 0, x <= 0, y >= 0, x >= -1/2, x <= 1/2,
\* x + y >= 1, y <= 1/2, and {x <= 0}, {x <= 1} of the half plane model
HalfSpaces ==
  {G(0, 1, 0), G(0, -1, 0), G(0, 0, 1), G(1, 2, 0), G(1, -2, 0),
   G(-1, 1, 1), G(1, 0, -2), G(1, -1, -1)}

\* geodesics of the plane, of both orientations
Geodesics == {G(0, 1, 0), G(0, -1, 0), G(1, 0, -2)}

\* the origin, a second finite point, and the ideal points (0, 1), (1, 0)
Points == {<<Q(0), Q(0)>>, <<Rat(1, 2), Q(0)>>, <<Q(0), Q(1)>>, <<Q(1), Q(0)>>}

Operands ==
  {HalfSpaceValue(h) : h \in HalfSpaces}
  \cup {GeodesicValue(g) : g \in Geodesics}
  \cup {PointValue(p) : p \in Points}
  \cup {empty_set}

\* the operands of the plans with three operands
FewOperands ==
  {HalfSpaceValue(G(0, 1, 0)), HalfSpaceValue(G(1, 2, 0)),
   HalfSpaceValue(G(1, -2, 0)), GeodesicValue(G(0, -1, 0)),
   PointValue(<<Q(0), Q(0)>>)}

Plan(kind, operands) == [kind |-> kind, operands |-> operands]

Plans ==
  {Plan("twice", <<A>>) : A \in Operands}
  \cup {Plan("twice", <<A, B>>) : A \in Operands, B \in Operands}
  \cup {Plan("swap", <<A, B>>) : A \in Operands, B \in Operands}
  \cup {Plan("assoc", <<A, B, C>>) :
          A \in FewOperands, B \in FewOperands, C \in FewOperands}

NumCalls(p) == IF p.kind = "assoc" THEN 4 ELSE 2

\* the operands of call number n of the plan
CallOperands(p, done, n) ==
  CASE p.kind = "twice" -> p.operands
    [] p.kind = "method" ->
         IF n = 1 THEN p.operands ELSE <<ListValue(p.operands)>>
    [] p.kind = "swap" ->
         IF n = 1 THEN p.operands ELSE <<p.operands[2], p.operands[1]>>
    [] p.kind = "assoc" ->
         IF n = 1 THEN <<p.operands[1], p.operands[2]>>
         ELSE IF n = 2 THEN <<done[1], p.operands[3]>>
         ELSE IF n = 3 THEN <<p.operands[2], p.operands[3]>>
         ELSE <<p.operands[1], done[3]>>

VARIABLES
  plan,      \* the calls the client makes
  results,   \* the values of the calls that have returned or raised
  stack      \* the frames of the call under way, the innermost last

vars == <<plan, results, stack>>

\* the first exception raised while the operands are evaluated, coerced
\* and asked for their half spaces, "" when there is none
RECURSIVE first_error(_, _, _)
first_error(subsets, j, pass) ==
  IF j > Len(subsets)
  THEN (IF pass = "evaluate" THEN first_error(subsets, 1, "coerce")
        ELSE IF pass = "coerce" THEN first_error(subsets, 1, "_half_spaces")
        ELSE "")
  ELSE IF pass = "evaluate" /\ subsets[j].kind = "error" THEN subsets[j].error
  ELSE IF pass = "coerce" /\ subsets[j].kind \in {"polygon", "bool", "list"}
  THEN "TypeError"
  ELSE IF pass = "_half_spaces" /\ half_spaces_of(subsets[j]).error # ""
  THEN half_spaces_of(subsets[j]).error
  ELSE first_error(subsets, j + 1, pass)

\* HyperbolicPlane.intersection, up to the first step of _reduce
intersection_unless(error, subsets) ==
  IF error # "" THEN Raise(error)
  ELSE reduce(<<>>, merge_sort([j \in 1..Len(subsets) |->
                                 half_spaces_of(subsets[j]).list]))

intersection(subsets) ==
  intersection_unless(first_error(subsets, 1, "evaluate"), subsets)

\* a step ends with the stack of the call under way or with its result
Becomes(outcome) ==
  IF outcome.finished
  THEN /\ stack' = <<>>
       /\ results' = Append(results, outcome.value)
  ELSE /\ stack' = outcome.stack
       /\ UNCHANGED results

Init ==
  /\ plan \in Plans
  /\ results = <<>>
  /\ stack = <<>>

\* the client calls HyperbolicPlane.intersection
Call ==
  /\ stack = <<>>
  /\ Len(results) < NumCalls(plan)
  /\ Becomes(intersection(CallOperands(plan, results, Len(results) + 1)))
  /\ UNCHANGED plan

\* shuffle(random_half_spaces)
Shuffle ==
  /\ stack # <<>>
  /\ Last(stack).pc = "shuffle"
  /\ \E permutation \in Permutations(1..Len(Last(stack).half_spaces)) :
       Becomes(shuffle_step(stack, permutation))
  /\ UNCHANGED plan

\* one round of the loop over random_half_spaces
MovePoint ==
  /\ stack # <<>>
  /\ Last(stack).pc = "loop"
  /\ Last(stack).k <= Len(Last(stack).random_half_spaces)
  /\ \E l \in loop_choices(Last(stack)) : Becomes(loop_step(stack, l))
  /\ UNCHANGED plan

\* the point is extended to a segment, and _reduce_euclidean
ExtendPoint ==
  /\ stack # <<>>
  /\ Last(stack).pc = "loop"
  /\ Last(stack).k > Len(Last(stack).random_half_spaces)
  /\ Becomes(extend_step(stack))
  /\ UNCHANGED plan

\* one round of the loop of _reduce_unit_disk, or its end
ReduceUnitDisk ==
  /\ stack # <<>>
  /\ Last(stack).pc = "disk"
  /\ Becomes(disk_step(stack))
  /\ UNCHANGED plan

Next == Call \/ Shuffle \/ MovePoint \/ ExtendPoint \/ ReduceUnitDisk

Spec == Init /\ [][Next]_vars

\* the plan is over
Done == stack = <<>> /\ Len(results) = NumCalls(plan)

(***************************************************************************)
(* What a convex set is as a set of points of the closed unit disk D.      *)
(* This is the geometry the claims are measured against; it is computed    *)
(* from first principles, not by the reduction above.  A set of the plane  *)
(* is described by a list of closed half planes <<a, b, c>>; it stands for *)
(* the points of D that lie in all of them.                                *)
(***************************************************************************)
\* the sign of p + q * sqrt(r), for rationals p, q and r >= 0
SurdSign(p, q, r) ==
  IF Sgn(q) = 0 \/ Sgn(r) = 0 THEN Sgn(p)
  ELSE IF Sgn(p) >= 0 /\ Sgn(q) > 0 THEN 1
  ELSE IF Sgn(p) <= 0 /\ Sgn(q) < 0 THEN -1
  ELSE IF Sgn(q) < 0 THEN Sgn(Sub(Mul(p, p), Mul(Mul(q, q), r)))
  ELSE Sgn(Sub(Mul(Mul(q, q), r), Mul(p, p)))

NormSquared(h) == Add(Mul(h[2], h[2]), Mul(h[3], h[3]))

\* whether the line of g meets the unit circle
MeetsCircle(g) == Le(Mul(g[1], g[1]), NormSquared(g))

\* the sign of h at the end s (1 or -1) of the chord that g cuts off
\* the unit circle, the point -(a/n2)(b, c) + s (sqrt(n2 - a^2)/n2)(c, -b)
SignAtChordEnd(h, g, s) ==
  LET n2 == NormSquared(g)
  IN  SurdSign(Sub(h[1], Div(Mul(g[1], Add(Mul(h[2], g[2]), Mul(h[3], g[3]))),
                             n2)),
               Div(Mul(Q(s), Sub(Mul(h[2], g[3]), Mul(h[3], g[2]))), n2),
               Sub(n2, Mul(g[1], g[1])))

\* the sign of h at the point of the unit circle where g is least,
\* the point -(B, C)/sqrt(B^2 + C^2) for g = <<A, B, C>>
SignAtCircleMin(h, g) ==
  SurdSign(h[1],
           Neg(Div(Add(Mul(h[2], g[2]), Mul(h[3], g[3])), NormSquared(g))),
           NormSquared(g))

\* the points where the least value of a linear function on D /\ L can be
\* taken: a vertex of L in D, or an end of a chord of L, that lies in L
Vertices(L) ==
  {v \in {geodesic_intersection(L[i], L[j]) : i \in 1..Len(L), j \in 1..Len(L)} :
     /\ v # None
     /\ point_is_valid(v)
     /\ \A k \in 1..Len(L) : half_space_contains(L[k], v)}

ChordEnds(L) ==
  {e \in (1..Len(L)) \X {1, -1} :
     /\ MeetsCircle(L[e[1]])
     /\ \A k \in 1..Len(L) : SignAtChordEnd(L[k], L[e[1]], e[2]) >= 0}

\* D /\ L is not empty
NonEmptySet(L) == L = <<>> \/ Vertices(L) # {} \/ ChordEnds(L) # {}

\* D /\ L is a subset of the half plane h (whose normal is not zero)
SubsetOfHalfPlane(L, h) ==
  /\ \/ \E k \in 1..Len(L) : SignAtCircleMin(L[k], h) < 0
     \/ SignAtCircleMin(h, h) >= 0
  /\ \A v \in Vertices(L) : half_space_contains(h, v)
  /\ \A e \in ChordEnds(L) : SignAtChordEnd(h, L[e[1]], e[2]) >= 0

\* D /\ L is a subset of D /\ M
SubsetOfSet(L, M) == \A k \in 1..Len(M) : SubsetOfHalfPlane(L, M[k])

SameSet(L, M) == SubsetOfSet(L, M) /\ SubsetOfSet(M, L)

\* four half planes that meet in the point p only
PointAsSet(p) ==
  << <<Neg(p[1]), One, Zero>>, <<p[1], Neg(One), Zero>>,
     <<Neg(p[2]), Zero, One>>, <<p[2], Zero, Neg(One)>> >>

\* two half planes that are disjoint
NothingAsSet == << <<Neg(One), One, Zero>>, <<Neg(One), Neg(One), Zero>> >>

\* the points of a convex set, as a list of half planes
AsSet(v) ==
  CASE v.kind = "point" -> PointAsSet(v.point)
    [] v.kind = "geodesic" -> <<v.geodesic, neg_geodesic(v.geodesic)>>
    [] v.kind = "half_space" -> <<v.geodesic>>
    [] v.kind = "polygon" -> v.half_spaces
    [] v.kind = "edge" ->
         <<v.geodesic, neg_geodesic(v.geodesic)>>
         \o edge_end_half_spaces(v.geodesic, v.start, v.end)
    [] OTHER -> NothingAsSet

RECURSIVE Concat(_)
Concat(lists) ==
  IF lists = <<>> THEN <<>> ELSE lists[1] \o Concat(SubSeq(lists, 2, Len(lists)))

\* the intersection of the operands, as a list of half planes
OperandsAsSet(subsets) == Concat([j \in 1..Len(subsets) |-> AsSet(subsets[j])])

\* the simplest kind of convex set that is exactly D /\ L
KindOfSet(L) ==
  IF ~NonEmptySet(L) THEN "empty"
  ELSE IF \E v \in Vertices(L) : SubsetOfSet(L, PointAsSet(v)) THEN "point"
  ELSE IF \E k \in 1..Len(L) :
            /\ geodesic_is_valid(L[k])
            /\ SubsetOfHalfPlane(L, neg_geodesic(L[k]))
            /\ <<k, 1>> \in ChordEnds(L) /\ <<k, -1>> \in ChordEnds(L)
  THEN "geodesic"
  ELSE IF \E k \in 1..Len(L) :
            /\ geodesic_is_valid(L[k])
            /\ SubsetOfSet(<<L[k]>>, L)
  THEN "half_space"
  ELSE "polygon"

(***************************************************************************)
(* The claims.  Call number n of the plan has returned or raised once      *)
(* results has n entries; its operands are CallOperands(plan, results, n). *)
(***************************************************************************)
Calls == 1..Len(results)

OperandsOf(n) == CallOperands(plan, results, n)

\* a non empty list of points, geodesics and half spaces
ValidOperands(subsets) ==
  /\ subsets # <<>>
  /\ \A j \in 1..Len(subsets) :
       subsets[j].kind \in {"point", "geodesic", "half_space"}

IsValue(v) == v.kind # "error"

\* v == w for two returned values; polygons, which Python
\* compares by identity, count as equal when their lists are equal
EqualValues(v, w) ==
  /\ v.kind = w.kind
  /\ CASE v.kind = "point" -> v.point = w.point
       [] v.kind \in {"geodesic", "half_space"} ->
            geodesic_eq(v.geodesic, w.geodesic)
       [] v.kind = "polygon" ->
            /\ Len(v.half_spaces) = Len(w.half_spaces)
            /\ \A k \in 1..Len(v.half_spaces) :
                 geodesic_eq(v.half_spaces[k], w.half_spaces[k])
       [] v.kind = "empty" -> TRUE
       [] OTHER -> v = w

\* two calls agree: both raise, or both return and the values are equal
Agree(v, w) ==
  \/ ~IsValue(v) /\ ~IsValue(w)
  \/ IsValue(v) /\ IsValue(w) /\ EqualValues(v, w)

\* the list l without its entry number k
Without(l, k) == SubSeq(l, 1, k - 1) \o SubSeq(l, k + 1, Len(l))

\* C1: for operands drawn from the valid points, geodesics and half spaces,
\* a point of the closed unit disk belongs to the value that intersection
\* returns if and only if it belongs to every operand.
C1_MembershipInNoncanonical ==
  \A n \in Calls :
    (ValidOperands(OperandsOf(n)) /\ IsValue(results[n]))
      => SameSet(AsSet(results[n]), OperandsAsSet(OperandsOf(n)))

\* C2: for every non empty list of valid points, geodesics and half spaces,
\* intersection returns an empty set, a point, a geodesic, a half space or a
\* convex polygon: it raises no NotImplementedError or assertion failure,
\* and returns nothing of another kind.
C2_AlwaysOneOfFiveKinds ==
  \A n \in Calls :
    ValidOperands(OperandsOf(n))
      => results[n].kind
           \in {"empty", "point", "geodesic", "half_space", "polygon"}

\* C3: two calls with the same operands agree on whether an error is raised
\* and return equal values, whatever order shuffle produces and whatever
\* value of lambda is picked from the feasible interval.
C3_IndependentOfShuffleAndLambda ==
  (plan.kind = "twice" /\ Done /\ ValidOperands(plan.operands))
    => Agree(results[1], results[2])

\* C4: intersection returns no convex polygon when a simpler set is exact:
\* when the intersection of the operands in the closed unit disk is empty,
\* a single point, a single geodesic or a single half space, the value
\* returned is of that kind.
C4_SimplestKind ==
  \A n \in Calls :
    (/\ ValidOperands(OperandsOf(n))
     /\ IsValue(results[n])
     /\ KindOfSet(OperandsAsSet(OperandsOf(n))) # "polygon")
      => results[n].kind = KindOfSet(OperandsAsSet(OperandsOf(n)))

\* C5: the list of half spaces of a convex polygon that intersection
\* returns is sorted by _normal_lt, and removing any half space of the list
\* strictly enlarges the intersection of the others in the closed unit disk.
C5_PolygonIsCanonical ==
  \A n \in Calls :
    (ValidOperands(OperandsOf(n)) /\ results[n].kind = "polygon")
      => LET l == results[n].half_spaces
         IN  /\ \A i \in 1..Len(l) : \A j \in (i + 1)..Len(l) :
                  ~normal_lt(l[j], l[i])
             /\ \A k \in 1..Len(l) : ~SubsetOfHalfPlane(Without(l, k), l[k])

\* C6: intersection of a single half space h returns h, and intersection of
\* a single point p, finite or ideal, returns p.
C6_IdempotentOnHalfSpacesAndPoints ==
  \A n \in Calls :
    (/\ Len(OperandsOf(n)) = 1
     /\ OperandsOf(n)[1].kind \in {"half_space", "point"})
      => IsValue(results[n]) /\ EqualValues(results[n], OperandsOf(n)[1])

\* C7: intersection of a single geodesic g returns g, with the orientation
\* of g, where geodesics are compared as oriented geodesics.
C7_IdempotentOnGeodesics ==
  \A n \in Calls :
    (Len(OperandsOf(n)) = 1 /\ OperandsOf(n)[1].kind = "geodesic")
      => IsValue(results[n]) /\ EqualValues(results[n], OperandsOf(n)[1])

\* C8: when one operand is the empty set and the others are valid points,
\* geodesics or half spaces, intersection returns the empty set and raises
\* nothing.
C8_EmptySetIsAbsorbing ==
  \A n \in Calls :
    (/\ \E j \in 1..Len(OperandsOf(n)) : OperandsOf(n)[j].kind = "empty"
     /\ \A j \in 1..Len(OperandsOf(n)) :
          OperandsOf(n)[j].kind \in {"empty", "point", "geodesic", "half_space"})
      => results[n].kind = "empty"

\* C9: intersection(A, B) and intersection(B, A) agree for valid points,
\* geodesics and half spaces A and B: both raise, or both return and the
\* values are equal.
C9_Commutative ==
  (plan.kind = "swap" /\ Done /\ ValidOperands(plan.operands))
    => Agree(results[1], results[2])

\* C10: intersection(intersection(A, B), C) and
\* intersection(A, intersection(B, C)) are equal for valid points,
\* geodesics and half spaces A, B and C: a value that intersection returns
\* is accepted as an operand of a later call.
C10_Associative ==
  (/\ plan.kind = "assoc" /\ Done
   /\ IsValue(results[1]) /\ IsValue(results[3]))
    => /\ IsValue(results[2]) /\ IsValue(results[4])
       /\ EqualValues(results[2], results[4])

(***************************************************************************)
(* The factories of the plane and the operations of single elements.  A    *)
(* client of these builds one element and applies one operation to it;     *)
(* plan is the operation with its arguments and results the values it      *)
(* returned or the exceptions it raised, in order.                         *)
(***************************************************************************)
\* the largest absolute value of an integer coefficient the client passes
MaxCoefficient == 2

Coefficients == {Q(n) : n \in -MaxCoefficient..MaxCoefficient}

Triples == Coefficients \X Coefficients \X Coefficients

\* HyperbolicGeodesic.__init__ with check=True
HyperbolicGeodesic(a, b, c) ==
  IF geodesic_is_valid(<<a, b, c>>) THEN GeodesicValue(<<a, b, c>>)
  ELSE ErrorValue("ValueError")

\* HyperbolicPlane.geodesic(a, b, c, model=model)
geodesic(a, b, c, model) ==
  IF model = "None" THEN ErrorValue("ValueError")
  ELSE IF model = "half_plane" THEN HyperbolicGeodesic(Add(a, c), b, Sub(a, c))
  ELSE IF model = "klein" THEN HyperbolicGeodesic(a, b, c)
  ELSE ErrorValue("NotImplementedError")

\* HyperbolicHalfSpace(parent, geodesic); the geodesic may have raised
HyperbolicHalfSpace(boundary) ==
  IF boundary.kind = "geodesic" THEN HalfSpaceValue(boundary.geodesic)
  ELSE boundary

\* HyperbolicPlane.half_space(a, b, c, model=model)
half_space(a, b, c, model) == HyperbolicHalfSpace(geodesic(a, b, c, model))

\* HyperbolicGeodesic._neg_
geodesic_neg(g) == geodesic(Neg(g[1]), Neg(g[2]), Neg(g[3]), "klein")

\* HyperbolicGeodesic.left_half_space
left_half_space(g) == half_space(g[1], g[2], g[3], "klein")

\* (-self).left_half_space(), where -self may have raised
left_half_space_of(v) ==
  IF v.kind = "geodesic" THEN left_half_space(v.geodesic) ELSE v

\* a right side that forgets to turn the geodesic around
right_half_space_of_self(g) == left_half_space(g)

\* HyperbolicGeodesic.right_half_space
right_half_space(g) == left_half_space_of(geodesic_neg(g))

\* HyperbolicHalfSpace._neg_
half_space_neg(h) == right_half_space(h)

\* -v for a geodesic or a half space v; an exception raised by the
\* operand goes on to the caller
neg(v) ==
  IF v.kind = "geodesic" THEN geodesic_neg(v.geodesic)
  ELSE IF v.kind = "half_space" THEN half_space_neg(v.geodesic)
  ELSE v

\* g.right_half_space(), (-g).left_half_space() and -(g.left_half_space())
sides(g, n) ==
  IF n = 1 THEN right_half_space(g)
  ELSE IF n = 2 THEN left_half_space_of(geodesic_neg(g))
  ELSE neg(left_half_space(g))

\* the geodesics and half spaces that the checked factories return
CheckedElements ==
  {v \in {geodesic(t[1], t[2], t[3], "klein") : t \in Triples}
         \cup {half_space(t[1], t[2], t[3], "klein") : t \in Triples} :
     IsValue(v)}

NegPlans == {Plan("neg", <<H>>) : H \in CheckedElements}

SidesPlans ==
  {Plan("sides", <<g>>) : g \in {v \in CheckedElements : v.kind = "geodesic"}}

\* the client evaluates -H, then -(-H)
Negate ==
  /\ plan.kind = "neg"
  /\ Len(results) < 2
  /\ results' = Append(results, neg(IF results = <<>> THEN plan.operands[1]
                                     ELSE results[1]))
  /\ UNCHANGED <<plan, stack>>

\* the client evaluates the three expressions for the right side of g
Sides ==
  /\ plan.kind = "sides"
  /\ Len(results) < 3
  /\ results' = Append(results, sides(plan.operands[1].geodesic,
                                       Len(results) + 1))
  /\ UNCHANGED <<plan, stack>>

\* the largest absolute value of a coefficient of the normal (b, c) of the
\* half spaces that the client compares
MaxNormal == 2

\* the half spaces that the client compares: every normal, the offsets
\* -1/2, 0 and 1/2, and each equation also multiplied by 2
HalfSpacesToOrder ==
  {h \in {<<Mul(Rat(k, 2), Q(m)), Q(b * m), Q(c * m)>> :
            k \in -1..1, b \in -MaxNormal..MaxNormal,
            c \in -MaxNormal..MaxNormal, m \in 1..2} :
     geodesic_is_valid(h)}

NormalLtPlans ==
  {Plan("_normal_lt", <<x, y>>) :
     x \in HalfSpacesToOrder, y \in HalfSpacesToOrder}

\* the client evaluates lt(x, y), lt(y, x) and lt(x, x)
NormalLt ==
  /\ plan.kind = "_normal_lt"
  /\ Len(results) < 3
  /\ results' =
       Append(results,
              IF results = <<>>
              THEN normal_lt(plan.operands[1], plan.operands[2])
              ELSE IF Len(results) = 1
              THEN normal_lt(plan.operands[2], plan.operands[1])
              ELSE normal_lt(plan.operands[1], plan.operands[1]))
  /\ UNCHANGED <<plan, stack>>

\* the largest number of lists that the client passes to _merge_sort
MaxLists == 3

\* the sorted lists of one or two half spaces, as the callers of _merge_sort
\* pass them; a half space may follow an equal one
SortedLists ==
  LET few == {G(0, 1, 0), G(0, -1, 0), G(1, 2, 0)}
  IN  {<<h>> : h \in few}
      \cup {l \in few \X few : ~normal_lt(l[2], l[1])}

RECURSIVE ListsOf(_)
ListsOf(count) ==
  IF count = 0 THEN {<<>>}
  ELSE {Append(lists, l) : lists \in ListsOf(count - 1), l \in SortedLists}

MergeSortPlans ==
  {Plan("_merge_sort", lists) :
     lists \in UNION {ListsOf(count) : count \in 0..MaxLists}}

\* a loop that moves all of A behind B without comparing
merge_loop_unordered(A, B, merged) == <<<<>>, B, Reverse(A)>>

\* the loop of the base case count == 2 of _merge_sort, which pops from A
\* and B: what is left of A and of B, and merged
RECURSIVE merge_loop(_, _, _)
merge_loop(A, B, merged) ==
  IF A = <<>> \/ B = <<>> THEN <<A, B, merged>>
  ELSE IF normal_lt(Last(A), Last(B))
       THEN merge_loop(A, Front(B), Append(merged, Last(B)))
       ELSE merge_loop(Front(A), B, Append(merged, Last(A)))

\* the base case count == 2 for the list objects A and B of the heap, from
\* the end of its loop on: A and B keep what the loop left, and the list
\* returned is a new object
merge_base(heap, A, B, left) ==
  [heap |-> Append([heap EXCEPT ![A] = left[1], ![B] = left[2]],
                   left[1] \o left[2] \o Reverse(left[3])),
   list |-> Len(heap) + 1]

\* the last step of the case count > 2
merge_halves(first, second) ==
  merge_base(second.heap, first.list, second.list,
             merge_loop(second.heap[first.list], second.heap[second.list],
                        <<>>))

\* HyperbolicPlane._merge_sort on list objects: heap holds the contents of
\* the list objects and half_spaces the objects passed; the heap after the
\* call and the object returned
RECURSIVE merge_sort_objects(_, _)
merge_sort_objects(heap, half_spaces) ==
  IF Len(half_spaces) = 0
  THEN [heap |-> Append(heap, <<>>), list |-> Len(heap) + 1]
  ELSE IF Len(half_spaces) = 1 THEN [heap |-> heap, list |-> half_spaces[1]]
  ELSE IF Len(half_spaces) = 2
  THEN merge_base(heap, half_spaces[1], half_spaces[2],
                  merge_loop(heap[half_spaces[1]], heap[half_spaces[2]], <<>>))
  ELSE merge_halves(
         merge_sort_objects(heap,
           SubSeq(half_spaces, 1, Len(half_spaces) \div 2)),
         merge_sort_objects(
           merge_sort_objects(heap,
             SubSeq(half_spaces, 1, Len(half_spaces) \div 2)).heap,
           SubSeq(half_spaces, Len(half_spaces) \div 2 + 1, Len(half_spaces))))

\* what the client sees after _merge_sort(*lists): the contents of the
\* lists it passed, the contents of the list returned, and whether the
\* list returned is one of the lists passed
merge_sort_call(lists, after) ==
  [lists |-> SubSeq(after.heap, 1, Len(lists)),
   returned |-> after.heap[after.list],
   is_argument |-> after.list <= Len(lists)]

\* the client calls HyperbolicPlane._merge_sort
MergeSort ==
  /\ plan.kind = "_merge_sort"
  /\ results = <<>>
  /\ results' =
       <<merge_sort_call(plan.operands,
           merge_sort_objects(plan.operands,
                              [j \in 1..Len(plan.operands) |-> j]))>>
  /\ UNCHANGED <<plan, stack>>

\* HyperbolicPoint.__init__ with check=True
HyperbolicPoint(x, y) ==
  IF point_is_valid(<<x, y>>) THEN PointValue(<<x, y>>)
  ELSE ErrorValue("ValueError")

\* HyperbolicPlane.point(x, y, model=model)
point(x, y, model) ==
  IF model = "klein" THEN HyperbolicPoint(x, y)
  ELSE IF model = "half_plane"
  THEN HyperbolicPoint(
         Div(Mul(Q(2), x), Add(One, Add(Mul(x, x), Mul(y, y)))),
         Div(Add(Neg(One), Add(Mul(x, x), Mul(y, y))),
             Add(One, Add(Mul(x, x), Mul(y, y)))))
  ELSE ErrorValue("NotImplementedError")

\* the coordinates that the client passes: the fractions with numerator and
\* denominator up to MaxCoefficient, and 3/5 and 4/5 for points of the unit
\* circle off the axes
Coordinates ==
  {Rat(n, d) : n \in -MaxCoefficient..MaxCoefficient, d \in 1..MaxCoefficient}
  \cup {Rat(3, 5), Rat(-3, 5), Rat(4, 5), Rat(-4, 5)}

ConstructPlans ==
  {Plan("geodesic", t) : t \in Triples}
  \cup {Plan("half_space", t) : t \in Triples}
  \cup {Plan("point", t) : t \in Coordinates \X Coordinates}

\* the client calls HyperbolicPlane.geodesic(a, b, c, model="klein")
Geodesic ==
  /\ plan.kind = "geodesic"
  /\ results = <<>>
  /\ results' = <<geodesic(plan.operands[1], plan.operands[2],
                           plan.operands[3], "klein")>>
  /\ UNCHANGED <<plan, stack>>

\* the client calls HyperbolicPlane.half_space(a, b, c, model="klein")
HalfSpace ==
  /\ plan.kind = "half_space"
  /\ results = <<>>
  /\ results' = <<half_space(plan.operands[1], plan.operands[2],
                             plan.operands[3], "klein")>>
  /\ UNCHANGED <<plan, stack>>

\* the client calls HyperbolicPlane.point(x, y, model="klein")
Point ==
  /\ plan.kind = "point"
  /\ results = <<>>
  /\ results' = <<point(plan.operands[1], plan.operands[2], "klein")>>
  /\ UNCHANGED <<plan, stack>>

\* a half circle that refuses the negative radii only
half_circle_but_zero(center, radius_squared) ==
  IF Lt(radius_squared, Zero)
  THEN ErrorValue("ValueError: radius must be positive")
  ELSE geodesic(One, Mul(Q(-2), center),
                Sub(Mul(center, center), radius_squared), "half_plane")

\* HyperbolicPlane.half_circle
half_circle(center, radius_squared) ==
  IF Le(radius_squared, Zero)
  THEN ErrorValue("ValueError: radius must be positive")
  ELSE geodesic(One, Mul(Q(-2), center),
                Sub(Mul(center, center), radius_squared), "half_plane")

HalfCirclePlans ==
  {Plan("half_circle", t) : t \in Coordinates \X Coordinates}

\* the client calls HyperbolicPlane.half_circle(center, radius_squared)
HalfCircle ==
  /\ plan.kind = "half_circle"
  /\ results = <<>>
  /\ results' = <<half_circle(plan.operands[1], plan.operands[2])>>
  /\ UNCHANGED <<plan, stack>>

\* HyperbolicPlane.projective
projective(p, q) ==
  IF p = Zero /\ q = Zero THEN ErrorValue("ValueError")
  ELSE IF q = Zero THEN point(Zero, One, "klein")
  ELSE point(Div(p, q), Zero, "half_plane")

Half(p) == Div(p, Q(2))

\* a lift with a wrong sign in its first entry
sl2_to_so12_sign(a, b, c, d) ==
  <<Sub(Mul(a, d), Mul(b, c)), Sub(Mul(a, c), Mul(b, d)),
    Add(Mul(a, c), Mul(b, d)),
    Sub(Mul(a, b), Mul(c, d)),
    Half(Add(Sub(Sub(Mul(a, a), Mul(b, b)), Mul(c, c)), Mul(d, d))),
    Half(Sub(Sub(Add(Mul(a, a), Mul(b, b)), Mul(c, c)), Mul(d, d))),
    Add(Mul(a, b), Mul(c, d)),
    Half(Sub(Add(Sub(Mul(a, a), Mul(b, b)), Mul(c, c)), Mul(d, d))),
    Half(Add(Add(Add(Mul(a, a), Mul(b, b)), Mul(c, c)), Mul(d, d)))>>

\* sl2_to_so12 of the matrix with the rows (a, b) and (c, d): the entries
\* of the 3x3 matrix, row after row
sl2_to_so12(a, b, c, d) ==
  <<Add(Mul(a, d), Mul(b, c)), Sub(Mul(a, c), Mul(b, d)),
    Add(Mul(a, c), Mul(b, d)),
    Sub(Mul(a, b), Mul(c, d)),
    Half(Add(Sub(Sub(Mul(a, a), Mul(b, b)), Mul(c, c)), Mul(d, d))),
    Half(Sub(Sub(Add(Mul(a, a), Mul(b, b)), Mul(c, c)), Mul(d, d))),
    Add(Mul(a, b), Mul(c, d)),
    Half(Sub(Add(Sub(Mul(a, a), Mul(b, b)), Mul(c, c)), Mul(d, d))),
    Half(Add(Add(Add(Mul(a, a), Mul(b, b)), Mul(c, c)), Mul(d, d)))>>

\* the entry [i, j] of D = isometry.transpose() * diagonal_matrix([1, 1, -1])
\* * isometry, with i and j counted from 0
D(isometry, i, j) ==
  Sub(Add(Mul(isometry[i + 1], isometry[j + 1]),
          Mul(isometry[i + 4], isometry[j + 4])),
      Mul(isometry[i + 7], isometry[j + 7]))

\* the conditions of apply_isometry under which it does not raise
\* ValueError('invalid isometry'), for a 3x3 matrix over the base ring
is_isometry(isometry) ==
  /\ \A i \in 0..2, j \in 0..2 : i # j => D(isometry, i, j) = Zero
  /\ \A i \in 0..2 : D(isometry, i, i) # Zero
  /\ D(isometry, 0, 0) = D(isometry, 1, 1)
  /\ D(isometry, 0, 0) = Neg(D(isometry, 2, 2))

\* isometry * vector(R, [x, y, 1])
image(isometry, p) ==
  [k \in 1..3 |->
     Add(Add(Mul(isometry[3 * k - 2], p[1]), Mul(isometry[3 * k - 1], p[2])),
         isometry[3 * k])]

\* point(x / z, y / z, model="klein")
normalized(v) ==
  IF v[3] = Zero THEN ErrorValue("ZeroDivisionError")
  ELSE point(Div(v[1], v[3]), Div(v[2], v[3]), "klein")

\* HyperbolicPoint.apply_isometry(isometry, model="half_plane") for the 2x2
\* matrix with the rows (a, b) and (c, d)
apply_isometry(p, a, b, c, d) ==
  IF ~is_isometry(sl2_to_so12(a, b, c, d)) THEN ErrorValue("ValueError")
  ELSE normalized(image(sl2_to_so12(a, b, c, d), p))

\* the largest absolute value of an entry of the matrices of the client, and
\* of the numerator and the denominator of its real numbers
MaxEntry == 2

\* the matrix entries a, b, c, d and the ideal point [p : q]
ApplyIsometryPlans ==
  {Plan("apply_isometry", <<Q(m[1]), Q(m[2]), Q(m[3]), Q(m[4]), r[1], r[2]>>) :
     m \in (-MaxEntry..MaxEntry) \X (-MaxEntry..MaxEntry)
           \X (-MaxEntry..MaxEntry) \X (-MaxEntry..MaxEntry),
     r \in {<<Rat(n, d), One>> : n \in -MaxEntry..MaxEntry, d \in 1..MaxEntry}
           \cup {<<One, Zero>>}}

\* the client calls H(r).apply_isometry(m)
ApplyIsometry ==
  /\ plan.kind = "apply_isometry"
  /\ results = <<>>
  /\ results' =
       <<apply_isometry(projective(plan.operands[5], plan.operands[6]).point,
                        plan.operands[1], plan.operands[2],
                        plan.operands[3], plan.operands[4])>>
  /\ UNCHANGED <<plan, stack>>

InitOperations ==
  /\ \/ plan \in NegPlans
     \/ plan \in SidesPlans
     \/ plan \in NormalLtPlans
     \/ plan \in MergeSortPlans
     \/ plan \in ConstructPlans
     \/ plan \in HalfCirclePlans
     \/ plan \in ApplyIsometryPlans
  /\ results = <<>>
  /\ stack = <<>>

NextOperations ==
  \/ Negate \/ Sides \/ NormalLt \/ MergeSort
  \/ Geodesic \/ HalfSpace \/ Point \/ HalfCircle \/ ApplyIsometry

SpecOperations == InitOperations /\ [][NextOperations]_vars

\* C11: for every valid half space or geodesic H, -(-H) == H; and for every
\* valid geodesic g the three expressions g.right_half_space(),
\* (-g).left_half_space() and -(g.left_half_space()) are equal half spaces.
C11_DoubleNegation ==
  /\ plan.kind = "neg" /\ Len(results) = 2
       => /\ IsValue(results[2])
          /\ EqualValues(results[2], plan.operands[1])
  /\ plan.kind = "sides" /\ Len(results) = 3
       => /\ \A n \in 1..3 : results[n].kind = "half_space"
          /\ EqualValues(results[1], results[2])
          /\ EqualValues(results[2], results[3])

\* -(-H) has been evaluated for a half space H that differs from -H
C11_Witness ==
  /\ plan.kind = "neg" /\ Len(results) = 2
  /\ plan.operands[1].kind = "half_space"
  /\ plan.operands[1].geodesic = G(1, -2, 1)
  /\ results[1].geodesic = G(-1, 2, -1)
  /\ results[2].geodesic = G(1, -2, 1)

\* C12: _normal_lt is a strict weak order on the valid half spaces: no half
\* space is less than itself, no two are less than each other, less-than is
\* transitive, two half spaces are not less than each other in both
\* directions exactly when they are equal, and a half space may be replaced
\* by an equal one (a positive multiple of its equation) on either side.
C12_StrictWeakOrder ==
  plan.kind = "_normal_lt" /\ Len(results) = 3
    => LET x == plan.operands[1]
           y == plan.operands[2]
       IN  /\ ~results[3]
           /\ ~(results[1] /\ results[2])
           /\ (~results[1] /\ ~results[2]) <=> geodesic_eq(x, y)
           /\ \A z \in HalfSpacesToOrder :
                /\ results[1] /\ normal_lt(y, z) => normal_lt(x, z)
                /\ geodesic_eq(y, z)
                     => /\ normal_lt(x, z) <=> results[1]
                        /\ normal_lt(z, x) <=> results[2]

\* {1/2 + x + y >= 0} has been compared in both directions with the same half
\* space written 1 + 2x + 2y >= 0: neither is less than the other
C12_Witness ==
  /\ plan.kind = "_normal_lt" /\ Len(results) = 3
  /\ plan.operands[1] = <<Rat(1, 2), Q(1), Q(1)>>
  /\ plan.operands[2] = G(1, 2, 2)
  /\ results = <<FALSE, FALSE, FALSE>>

\* C13: when the operands are an ideal point p and a half space h with
\* a + b*x + c*y > 0 at p, intersection returns the point p.
C13_IdealPointInHalfSpace ==
  \A n \in Calls :
    LET subsets == OperandsOf(n)
    IN  /\ Len(subsets) = 2
        /\ subsets[1].kind = "point"
        /\ ~is_finite(subsets[1].point)
        /\ subsets[2].kind = "half_space"
        /\ Sgn(Evaluate(subsets[2].geodesic, subsets[1].point)) > 0
        => results[n] = PointValue(subsets[1].point)

\* C14: when the operands are half spaces that bound a polygon with a non
\* empty interior and none of them is redundant, intersection returns a
\* polygon whose list holds exactly those half spaces, each once.
C14_PolygonOfItsHalfSpaces ==
  \A n \in Calls :
    LET subsets == OperandsOf(n)
        L == OperandsAsSet(subsets)
    IN  /\ Len(subsets) >= 2
        /\ \A j \in 1..Len(subsets) : subsets[j].kind = "half_space"
        /\ KindOfSet(L) = "polygon"
        /\ \A k \in 1..Len(L) : ~SameSet(Without(L, k), L)
        => /\ results[n].kind = "polygon"
           /\ Len(results[n].half_spaces) = Len(L)
           /\ \A k \in 1..Len(L) :
                \E j \in 1..Len(L) :
                  geodesic_eq(results[n].half_spaces[j], L[k])

(***************************************************************************)
(* A client that intersects the two sides of a geodesic.                   *)
(***************************************************************************)
BothSidesPlans ==
  {Plan("twice", <<left_half_space(g.geodesic), right_half_space(g.geodesic)>>) :
     g \in {v \in CheckedElements : v.kind = "geodesic"}}

InitBothSides ==
  /\ plan \in BothSidesPlans
  /\ results = <<>>
  /\ stack = <<>>

SpecBothSides == InitBothSides /\ [][Next]_vars

\* C15: for every valid geodesic g, the intersection of the left and the
\* right half space of g is a geodesic equal to g or to -g.
C15_BothSidesGiveTheGeodesic ==
  \A n \in Calls :
    /\ results[n].kind = "geodesic"
    /\ \/ geodesic_eq(results[n].geodesic, plan.operands[1].geodesic)
       \/ geodesic_eq(results[n].geodesic, plan.operands[2].geodesic)

\* the two sides of {1 + 2x - y = 0} have been intersected
C15_Witness ==
  /\ plan.operands[1] = HalfSpaceValue(G(1, 2, -1))
  /\ plan.operands[2] = HalfSpaceValue(G(-1, -2, 1))
  /\ Len(results) = 2
  /\ results[2].kind = "geodesic"

\* C16: after _merge_sort(L1, ..., Lk) has returned, every list Li holds
\* the elements it held before the call, in the same order, the list
\* returned is none of the lists passed, and it is the merge of the lists;
\* values of the plane are never changed by intersection.
C16_NoMutation ==
  plan.kind = "_merge_sort" /\ Len(results) = 1
    => /\ results[1].lists = plan.operands
       /\ ~results[1].is_argument
       /\ results[1].returned = merge_sort(plan.operands)

\* C17: geodesic(a, b, c, model="klein") raises ValueError if and only if
\* b*b + c*c <= a*a, and point(x, y, model="klein") raises ValueError if and
\* only if x*x + y*y > 1; every geodesic and half space that a checked
\* factory, a negation, left_half_space or right_half_space returns has
\* b*b + c*c > a*a, and every point has x*x + y*y <= 1.
C17_CheckedConstruction ==
  /\ plan.kind \in {"geodesic", "half_space"} /\ Len(results) = 1
       => LET a == plan.operands[1]
              b == plan.operands[2]
              c == plan.operands[3]
          IN  IF Le(Add(Mul(b, b), Mul(c, c)), Mul(a, a))
              THEN results[1] = ErrorValue("ValueError")
              ELSE results[1] = Value(plan.kind, <<a, b, c>>, None, None,
                                      None, <<>>, "")
  /\ plan.kind = "point" /\ Len(results) = 1
       => LET x == plan.operands[1]
              y == plan.operands[2]
          IN  IF Lt(One, Add(Mul(x, x), Mul(y, y)))
              THEN results[1] = ErrorValue("ValueError")
              ELSE results[1] = PointValue(<<x, y>>)
  /\ plan.kind \in {"geodesic", "half_space", "point", "neg", "sides"}
       => \A n \in Calls :
            /\ results[n].kind \in {"geodesic", "half_space", "point", "error"}
            /\ results[n].kind \in {"geodesic", "half_space"}
                 => Lt(Mul(results[n].geodesic[1], results[n].geodesic[1]),
                       Add(Mul(results[n].geodesic[2], results[n].geodesic[2]),
                           Mul(results[n].geodesic[3], results[n].geodesic[3])))
            /\ results[n].kind = "point"
                 => Le(Add(Mul(results[n].point[1], results[n].point[1]),
                           Mul(results[n].point[2], results[n].point[2])), One)

\* the factory has refused the line 1 + y = 0, which touches the unit circle
C17_Witness ==
  /\ plan = Plan("geodesic", G(1, 0, 1))
  /\ results = <<ErrorValue("ValueError")>>

\* C18: half_circle(center, radius_squared) raises ValueError "radius must
\* be positive" when radius_squared <= 0; when radius_squared > 0 it returns
\* the geodesic with the Klein coefficients (1 + center^2 - radius_squared,
\* -2*center, 1 - center^2 + radius_squared), which satisfy b*b + c*c > a*a.
C18_HalfCircle ==
  plan.kind = "half_circle" /\ Len(results) = 1
    => LET center == plan.operands[1]
           radius_squared == plan.operands[2]
           a == Sub(Add(One, Mul(center, center)), radius_squared)
           b == Mul(Q(-2), center)
           c == Add(Sub(One, Mul(center, center)), radius_squared)
       IN  IF Le(radius_squared, Zero)
           THEN results[1] = ErrorValue("ValueError: radius must be positive")
           ELSE /\ results[1] = GeodesicValue(<<a, b, c>>)
                /\ Lt(Mul(a, a), Add(Mul(b, b), Mul(c, c)))

\* the half circle of centre 2 and squared radius 1/2 has been built
C18_Witness ==
  /\ plan = Plan("half_circle", <<Q(2), Rat(1, 2)>>)
  /\ results = <<GeodesicValue(<<Rat(9, 2), Q(-4), Rat(-5, 2)>>)>>

\* C19: for every invertible matrix with the rows (a, b) and (c, d) and
\* every ideal point r = [p : q], H(r).apply_isometry(m) is the ideal point
\* [a*p + b*q : c*p + d*q], that is (a*r + b)/(c*r + d), infinity when the
\* denominator is 0, and a/c or infinity for r = infinity; the image lies
\* on the unit circle.
C19_ApplyIsometryToIdealPoints ==
  plan.kind = "apply_isometry" /\ Len(results) = 1
    => LET a == plan.operands[1]
           b == plan.operands[2]
           c == plan.operands[3]
           d == plan.operands[4]
           p == plan.operands[5]
           q == plan.operands[6]
       IN  Sub(Mul(a, d), Mul(b, c)) # Zero
             => /\ results[1] = projective(Add(Mul(a, p), Mul(b, q)),
                                           Add(Mul(c, p), Mul(d, q)))
                /\ results[1].kind = "point"
                /\ Add(Mul(results[1].point[1], results[1].point[1]),
                       Mul(results[1].point[2], results[1].point[2])) = One

\* the ideal point 1/2 has been moved by the matrix with the rows (1, 2) and
\* (2, -1), of determinant -5, to infinity
C19_Witness ==
  /\ plan = Plan("apply_isometry", <<Q(1), Q(2), Q(2), Q(-1), Rat(1, 2), One>>)
  /\ results = <<PointValue(<<Zero, One>>)>>

(***************************************************************************)
(* A client that calls plane.intersection(S, T), then S.intersection(T).   *)
(***************************************************************************)
MethodPlans == {Plan("method", <<S, T>>) : S \in Operands, T \in Operands}

InitMethod ==
  /\ plan \in MethodPlans
  /\ results = <<>>
  /\ stack = <<>>

SpecMethod == InitMethod /\ [][Next]_vars

\* C20: for valid convex sets S and T, S.intersection(T) returns the value
\* that plane.intersection(S, T) returns.
C20_MethodIsPlaneIntersection ==
  plan.kind = "method" /\ Len(results) = 2 /\ IsValue(results[1])
    => IsValue(results[2]) /\ EqualValues(results[1], results[2])

\* the normals of h and g are parallel with equal orientation
SameDirection(h, g) ==
  /\ Mul(h[2], g[3]) = Mul(h[3], g[2])
  /\ Sgn(Add(Mul(h[2], g[2]), Mul(h[3], g[3]))) > 0

\* C21: among half spaces whose Klein normals are parallel with equal
\* orientation _normal_lt puts the more restrictive one first: if h is a
\* proper subset of g then _normal_lt(h, g) is true and _normal_lt(g, h) is
\* false, whatever the signs of b and c.
C21_MoreRestrictiveFirst ==
  plan.kind = "_normal_lt" /\ Len(results) = 3
    => LET h == plan.operands[1]
           g == plan.operands[2]
       IN  /\ SameDirection(h, g)
           /\ SubsetOfHalfPlane(<<h>>, g)
           /\ ~SubsetOfHalfPlane(<<g>>, h)
           => results[1] /\ ~results[2]

\* how often the half space h occurs in the list l
RECURSIVE Occurrences(_, _)
Occurrences(l, h) ==
  IF l = <<>> THEN 0
  ELSE (IF l[1] = h THEN 1 ELSE 0) + Occurrences(SubSeq(l, 2, Len(l)), h)

\* no later element of l is _normal_lt an earlier one
SortedByNormalLt(l) ==
  \A i \in 1..Len(l) : \A j \in i..Len(l) : ~normal_lt(l[j], l[i])

\* C22: _merge_sort applied to k >= 0 lists, each sorted by _normal_lt,
\* returns a list that is sorted by _normal_lt and is a permutation of the
\* concatenation of the lists: every half space occurs in it as often as in
\* the lists together, and nothing else occurs.
C22_MergeIsSortedPermutation ==
  plan.kind = "_merge_sort" /\ Len(results) = 1
    => LET all == Concat(plan.operands)
           returned == results[1].returned
       IN  /\ \A j \in 1..Len(plan.operands) :
                SortedByNormalLt(plan.operands[j])
           /\ SortedByNormalLt(returned)
           /\ Len(returned) = Len(all)
           /\ \A k \in 1..Len(all) :
                Occurrences(returned, all[k]) = Occurrences(all, all[k])

\* three lists that hold {x >= 0} three times and two other half spaces
\* have been merged
C22_Witness ==
  /\ plan.kind = "_merge_sort" /\ Len(results) = 1
  /\ plan.operands = << <<G(0, 1, 0), G(0, 1, 0)>>, <<G(0, -1, 0), G(0, 1, 0)>>,
                        <<G(1, 2, 0)>> >>
  /\ Len(results[1].returned) = 5
  /\ Occurrences(results[1].returned, G(0, 1, 0)) = 3

(***************************************************************************)
(* Half planes of the Euclidean plane, the unit disk ignored.  What is     *)
(* left of the boundary line of L[k] by the half planes of the list L is   *)
(* an interval of the parameter t of the points P + t (c, -b) of the line, *)
(* P the point of the line next to the origin.                             *)
(***************************************************************************)
\* the point of parameter t on the boundary line of g
PointOfLine(g, t) ==
  <<Add(Neg(Div(Mul(g[1], g[2]), NormSquared(g))), Mul(t, g[3])),
    Sub(Neg(Div(Mul(g[1], g[3]), NormSquared(g))), Mul(t, g[2]))>>

\* the growth of h along the boundary line of g
Growth(h, g) == Sub(Mul(h[2], g[3]), Mul(h[3], g[2]))

\* the parameter where the boundary line of g crosses the one of h
Crossing(h, g) == Neg(Div(Evaluate(h, PointOfLine(g, Zero)), Growth(h, g)))

\* no point of the boundary line of L[k] lies in all the half planes of L
LineIsCut(L, k) ==
  \/ \E j \in 1..Len(L) :
       /\ Growth(L[j], L[k]) = Zero
       /\ Sgn(Evaluate(L[j], PointOfLine(L[k], Zero))) < 0
  \/ \E i \in 1..Len(L) : \E j \in 1..Len(L) :
       /\ Sgn(Growth(L[i], L[k])) > 0
       /\ Sgn(Growth(L[j], L[k])) < 0
       /\ Lt(Crossing(L[j], L[k]), Crossing(L[i], L[k]))

\* exactly one point of the boundary line of L[k] lies in all of them
LineIsPoint(L, k) ==
  /\ ~LineIsCut(L, k)
  /\ \E i \in 1..Len(L) : \E j \in 1..Len(L) :
       /\ Sgn(Growth(L[i], L[k])) > 0
       /\ Sgn(Growth(L[j], L[k])) < 0
       /\ Crossing(L[j], L[k]) = Crossing(L[i], L[k])

\* more than one point of the boundary line of L[k] lies in all of them
LineIsEdge(L, k) == ~LineIsCut(L, k) /\ ~LineIsPoint(L, k)

\* the Euclidean intersection of a non empty list of half planes
EuclideanIsEmpty(L) == \A k \in 1..Len(L) : LineIsCut(L, k)

EuclideanIsPoint(L) ==
  /\ ~EuclideanIsEmpty(L)
  /\ \A k \in 1..Len(L) : ~LineIsEdge(L, k)

\* the point, when the Euclidean intersection is a single point
EuclideanPoint(L) ==
  LET k == CHOOSE k \in 1..Len(L) : LineIsPoint(L, k)
      i == CHOOSE i \in 1..Len(L) : Sgn(Growth(L[i], L[k])) > 0
                                    /\ \A j \in 1..Len(L) :
                                         Sgn(Growth(L[j], L[k])) > 0
                                         => Le(Crossing(L[j], L[k]),
                                               Crossing(L[i], L[k]))
  IN  PointOfLine(L[k], Crossing(L[i], L[k]))

\* the points where two boundary lines of L cross inside all of L
EuclideanVertices(L) ==
  {v \in {geodesic_intersection(L[i], L[j]) : i \in 1..Len(L), j \in 1..Len(L)} :
     v # None /\ \A k \in 1..Len(L) : half_space_contains(L[k], v)}

\* the directions that, together, span every direction in which the
\* Euclidean intersection of L is unbounded
Directions(L) ==
  UNION {{<<L[k][3], Neg(L[k][2])>>, <<Neg(L[k][3]), L[k][2]>>,
          <<L[k][2], L[k][3]>>} : k \in 1..Len(L)}

Unbounded(L, r) ==
  \A k \in 1..Len(L) : Sgn(Add(Mul(L[k][2], r[1]), Mul(L[k][3], r[2]))) >= 0

\* the Euclidean intersection of L, which is not empty, lies in the half
\* plane h: h is not negative at the vertices, on the boundary lines that
\* no half plane cuts, and does not fall in an unbounded direction
EuclideanSubsetOfHalfPlane(L, h) ==
  /\ L # <<>>
  /\ \A v \in EuclideanVertices(L) : half_space_contains(h, v)
  /\ \A k \in 1..Len(L) :
       (\A j \in 1..Len(L) : /\ Growth(L[j], L[k]) = Zero
                             /\ half_space_contains(L[j], PointOfLine(L[k], Zero)))
         => half_space_contains(h, PointOfLine(L[k], Zero))
  /\ \A r \in Directions(L) :
       Unbounded(L, r) => Sgn(Add(Mul(h[2], r[1]), Mul(h[3], r[2]))) >= 0

EuclideanSame(L, M) ==
  /\ \A k \in 1..Len(M) : EuclideanSubsetOfHalfPlane(L, M[k])
  /\ \A k \in 1..Len(L) : EuclideanSubsetOfHalfPlane(M, L[k])

(***************************************************************************)
(* A client that calls the steps of the reduction one at a time.           *)
(***************************************************************************)
\* the largest number of half spaces in a list that the client passes
MaxHalfSpaces == 4

\* the half spaces of the lists: x >= 0, x <= 0, y >= 0, y <= 0, the nested
\* x >= -1/2 and x <= 1/2, x >= 1/2, the two sides of x + y = 0 and of
\* 2 + 2x - y = 0, and y >= x with a short normal
HalfSpacesToReduce ==
  {G(0, 1, 0), G(0, -1, 0), G(0, 0, 1), G(0, 0, -1), G(1, 2, 0), G(1, -2, 0),
   G(-1, 2, 0), G(0, -1, -1), G(0, 1, 1), G(2, 2, -1), G(-2, -2, 1),
   <<Zero, Rat(-1, 4), Rat(1, 4)>>}

\* the lists of n half spaces that are sorted by _normal_lt
RECURSIVE SortedListsOf(_)
SortedListsOf(n) ==
  IF n = 0 THEN {<<>>}
  ELSE {l \in {Append(p, h) : p \in SortedListsOf(n - 1),
                              h \in HalfSpacesToReduce} :
          SortedByNormalLt(l)}

TriviallyRedundantPlans ==
  {Plan("_reduce_trivially_redundant", l) :
     l \in UNION {SortedListsOf(n) : n \in 0..MaxHalfSpaces}}

\* the client calls HyperbolicPlane._reduce_trivially_redundant
ReduceTriviallyRedundant ==
  /\ plan.kind = "_reduce_trivially_redundant"
  /\ results = <<>>
  /\ results' = <<reduce_trivially_redundant(plan.operands)>>
  /\ UNCHANGED <<plan, stack>>

\* the sorted lists that _reduce_trivially_redundant leaves as they are
ReducedLists ==
  {l \in UNION {SortedListsOf(n) : n \in 0..MaxHalfSpaces} :
     reduce_trivially_redundant(l) = l}

NonEmptyPlans == {Plan("_reduce_euclidean_non_empty", l) : l \in ReducedLists}

\* the client calls HyperbolicPlane._reduce_euclidean_non_empty with
\* assume_sorted=True: the call up to the shuffle
ReduceEuclideanNonEmpty ==
  /\ plan.kind = "_reduce_euclidean_non_empty"
  /\ results = <<>>
  /\ stack = <<>>
  /\ Becomes(IF plan.operands = <<>> THEN Raise("ValueError")
             ELSE IF Len(plan.operands) = 1
             THEN Finished(HalfSpaceValue(plan.operands[1]))
             ELSE Running(<<Frame("shuffle", plan.operands, <<>>, 0, None, 0,
                                  TRUE, True, True, <<>>, empty_set)>>))
  /\ UNCHANGED plan

\* the end of _reduce_euclidean_non_empty: the point is extended to a
\* segment, and the call returns
ExtendPointAndReturn ==
  /\ plan.kind = "_reduce_euclidean_non_empty"
  /\ stack # <<>>
  /\ Last(stack).pc = "loop"
  /\ Last(stack).k > Len(Last(stack).random_half_spaces)
  /\ Becomes(Finished(extend_point(Last(stack).half_spaces,
                                   Last(stack).random_half_spaces,
                                   Last(stack).point, 1)))
  /\ UNCHANGED plan

\* a reduced list with a Euclidean intersection that is not empty, and any
\* of its half spaces whose boundary line carries an edge of it
EuclideanPlans ==
  {Plan("_reduce_euclidean", <<d[1], d[1][d[2]]>>) :
     d \in {d \in ReducedLists \X (1..MaxHalfSpaces) :
              d[2] <= Len(d[1]) /\ LineIsEdge(d[1], d[2])}}

\* the client calls HyperbolicPlane._reduce_euclidean with assume_sorted=True
ReduceEuclidean ==
  /\ plan.kind = "_reduce_euclidean"
  /\ results = <<>>
  /\ results' = <<reduce_euclidean(plan.operands[1], plan.operands[2])>>
  /\ UNCHANGED <<plan, stack>>

\* the reduced lists that are minimal for their Euclidean intersection,
\* which is not empty
MinimalLists ==
  {l \in ReducedLists :
     /\ l # <<>>
     /\ ~EuclideanIsEmpty(l)
     /\ \A k \in 1..Len(l) : ~EuclideanSubsetOfHalfPlane(Without(l, k), l[k])}

UnitDiskPlans == {Plan("_reduce_unit_disk", l) : l \in MinimalLists}

\* the client calls HyperbolicPlane._reduce_unit_disk with assume_sorted=True
ReduceUnitDiskCall ==
  /\ plan.kind = "_reduce_unit_disk"
  /\ results = <<>>
  /\ stack = <<>>
  /\ Becomes(Running(<<disk_frame(plan.operands)>>))
  /\ UNCHANGED plan

\* the half spaces of the calls of _reduce: x >= 0, x <= 0, y >= 0, y <= 0,
\* x >= -1/2, x <= 1/2
HalfSpacesOfReduce ==
  {G(0, 1, 0), G(0, -1, 0), G(0, 0, 1), G(0, 0, -1), G(1, 2, 0), G(1, -2, 0)}

\* the sorted lists of up to MaxHalfSpaces of them
ListsToReduce ==
  {l \in UNION {SortedListsOf(n) : n \in 0..MaxHalfSpaces} :
     \A k \in 1..Len(l) : l[k] \in HalfSpacesOfReduce}

ReducePlans == {Plan("_reduce", l) : l \in ListsToReduce}

\* the client calls HyperbolicPlane._reduce: the call up to the shuffle
Reduce ==
  /\ plan.kind = "_reduce"
  /\ results = <<>>
  /\ stack = <<>>
  /\ Becomes(reduce(<<>>, plan.operands))
  /\ UNCHANGED plan

\* intersection() of no subsets and of one half space
IntersectionPlans ==
  {Plan("intersection", <<>>)}
  \cup {Plan("intersection", <<HalfSpaceValue(h)>>) : h \in HalfSpacesToReduce}

\* the client calls HyperbolicPlane.intersection
Intersection ==
  /\ plan.kind = "intersection"
  /\ results = <<>>
  /\ stack = <<>>
  /\ Becomes(intersection(plan.operands))
  /\ UNCHANGED plan

\* the end of _reduce_euclidean_non_empty in a call of _reduce, which the
\* client or the negation of an edge has made
ExtendPointNested ==
  /\ plan.kind \in {"_reduce_unit_disk", "_reduce", "intersection"}
  /\ ExtendPoint

\* the calls of the steps of _reduce on the lists of ListsToReduce
StepPlans ==
  {Plan("_reduce_trivially_redundant", l) : l \in ListsToReduce}
  \cup {Plan("_reduce_euclidean_non_empty", l) :
          l \in {r \in ListsToReduce : reduce_trivially_redundant(r) = r}}

InitReduction ==
  /\ \/ plan \in TriviallyRedundantPlans
     \/ plan \in NonEmptyPlans
     \/ plan \in EuclideanPlans
     \/ plan \in UnitDiskPlans
  /\ results = <<>>
  /\ stack = <<>>

NextReduction ==
  \/ ReduceTriviallyRedundant
  \/ ReduceEuclideanNonEmpty
  \/ Shuffle
  \/ MovePoint
  \/ ExtendPointAndReturn
  \/ ReduceEuclidean
  \/ ReduceUnitDiskCall
  \/ ReduceUnitDisk
  \/ ExtendPointNested

SpecReduction == InitReduction /\ [][NextReduction]_vars

InitPipeline ==
  /\ \/ plan \in ReducePlans
     \/ plan \in IntersectionPlans
     \/ plan \in StepPlans
  /\ results = <<>>
  /\ stack = <<>>

NextPipeline ==
  \/ Intersection
  \/ Reduce
  \/ ReduceTriviallyRedundant
  \/ ReduceEuclideanNonEmpty
  \/ Shuffle
  \/ MovePoint
  \/ ExtendPointAndReturn
  \/ ExtendPointNested
  \/ ReduceUnitDisk

SpecPipeline == InitPipeline /\ [][NextPipeline]_vars

\* r holds some of the elements of l, in the order that they have in l
RECURSIVE IsSublist(_, _)
IsSublist(r, l) ==
  IF r = <<>> THEN TRUE
  ELSE IF l = <<>> THEN FALSE
  ELSE IF r[1] = l[1]
  THEN IsSublist(SubSeq(r, 2, Len(r)), SubSeq(l, 2, Len(l)))
  ELSE IsSublist(r, SubSeq(l, 2, Len(l)))

\* C23: _reduce_trivially_redundant, given a list sorted by _normal_lt,
\* returns a sublist with the same intersection as the whole list and
\* without two consecutive half spaces whose normals are parallel with equal
\* orientation; the half space kept from a run of nested parallel half
\* spaces is contained in all the others of the run.
C23_TriviallyRedundant ==
  plan.kind = "_reduce_trivially_redundant" /\ Len(results) = 1
    => LET reduced == results[1]
       IN  /\ IsSublist(reduced, plan.operands)
           /\ SameSet(reduced, plan.operands)
           /\ \A i \in 1..Len(reduced) - 1 :
                ~SameDirection(reduced[i], reduced[i + 1])
           /\ \A i \in 1..Len(reduced) : \A k \in 1..Len(plan.operands) :
                SameDirection(reduced[i], plan.operands[k])
                  => SubsetOfHalfPlane(<<reduced[i]>>, plan.operands[k])

\* C24: whenever _reduce_euclidean_non_empty returns a half space h, h is
\* one of the half spaces passed and more than one point of the boundary
\* line of h lies in the Euclidean intersection of the half planes; no half
\* space is returned when that intersection is a single point or empty.
C24_ReturnedHalfSpaceIsAnEdge ==
  /\ plan.kind = "_reduce_euclidean_non_empty"
  /\ Len(results) = 1
  /\ results[1].kind = "half_space"
  => /\ \E k \in 1..Len(plan.operands) :
          /\ plan.operands[k] = results[1].geodesic
          /\ LineIsEdge(plan.operands, k)
     /\ ~EuclideanIsEmpty(plan.operands)
     /\ ~EuclideanIsPoint(plan.operands)

\* C25: _reduce_euclidean_non_empty returns the empty set whenever the half
\* spaces passed, read as Euclidean half planes, have an empty
\* intersection; when their Euclidean intersection is exactly one point
\* (x, y) it returns that point if x*x + y*y <= 1 and the empty set if
\* x*x + y*y > 1.
C25_EmptyOrPoint ==
  /\ plan.kind = "_reduce_euclidean_non_empty"
  /\ Len(results) = 1
  /\ plan.operands # <<>>
  => /\ EuclideanIsEmpty(plan.operands) => results[1] = empty_set
     /\ EuclideanIsPoint(plan.operands)
          => results[1] = IF point_is_valid(EuclideanPoint(plan.operands))
                          THEN PointValue(EuclideanPoint(plan.operands))
                          ELSE empty_set

\* l, turned so that it starts with its element number k
Rotated(l, k) == SubSeq(l, k, Len(l)) \o SubSeq(l, 1, k - 1)

\* C26: given a sorted list of half spaces without parallel neighbours of
\* equal orientation whose Euclidean intersection is not empty, and any of
\* them whose boundary line carries an edge of that intersection,
\* _reduce_euclidean raises nothing and returns a list that starts with
\* boundary, is a sublist of the list in cyclic sorted order, has the same
\* Euclidean intersection as the whole list and is minimal: without any one
\* of its elements the Euclidean intersection is larger.
C26_EuclideanReduction ==
  plan.kind = "_reduce_euclidean" /\ Len(results) = 1
    => LET half_spaces == plan.operands[1]
           boundary == plan.operands[2]
           required == results[1].list
       IN  /\ results[1].error = ""
           /\ required # <<>>
           /\ required[1] = boundary
           /\ \E k \in 1..Len(half_spaces) :
                /\ half_spaces[k] = boundary
                /\ IsSublist(required, Rotated(half_spaces, k))
           /\ EuclideanSame(required, half_spaces)
           /\ \A k \in 1..Len(required) :
                ~EuclideanSubsetOfHalfPlane(Without(required, k), required[k])

\* more than one point of the edge of L[k], the part of its boundary line
\* in the Euclidean intersection of L, lies in the closed unit disk
EdgeMeetsDisk(L, k) ==
  Cardinality({v \in Vertices(L) : geodesic_contains(L[k], v) /\ is_finite(v)})
  + Cardinality({s \in {1, -1} : <<k, s>> \in ChordEnds(L)}) >= 2

\* the elements of L whose number is in K, in the order of L
RECURSIVE Selected(_, _, _)
Selected(L, K, k) ==
  IF k > Len(L) THEN <<>>
  ELSE (IF k \in K THEN <<L[k]>> ELSE <<>>) \o Selected(L, K, k + 1)

\* C27: _reduce_unit_disk, given a sorted Euclidean-minimal list of valid
\* half spaces, returns the empty set exactly when their Euclidean
\* intersection misses the closed unit disk, a point exactly when the
\* intersection meets the closed disk in that single point, the half space
\* when exactly one edge meets the disk in more than a point, and otherwise
\* a polygon of exactly the half spaces whose edge meets the disk in more
\* than a point.
C27_UnitDiskReduction ==
  plan.kind = "_reduce_unit_disk" /\ Len(results) = 1
    => LET L == plan.operands
           edges == {k \in 1..Len(L) : EdgeMeetsDisk(L, k)}
           points == {v \in Vertices(L) : SubsetOfSet(L, PointAsSet(v))}
       IN  /\ results[1] = empty_set <=> ~NonEmptySet(L)
           /\ results[1].kind = "point"
                <=> points # {} /\ results[1].point \in points
           /\ NonEmptySet(L) /\ points = {}
                => IF Cardinality(edges) = 1
                   THEN \E k \in edges : results[1] = HalfSpaceValue(L[k])
                   ELSE results[1] = PolygonValue(Selected(L, edges, 1))

(***************************************************************************)
(* A client that restricts edges to the unit disk and asks convex sets     *)
(* for their half spaces.                                                  *)
(***************************************************************************)
\* the parameters of the endpoints on the boundary line; they include the
\* ends -1, 1 of the chord of x = 0 and -4/25, 4/25 of the chord of
\* 3 + 5x = 0
Lambdas == {Rat(k, 25) : k \in {-50, -25, -5, -4, -2, 0, 2, 4, 5, 25, 50}}

\* the lines of the edges; 1 + x = 0 and 2 + x = 0 are no chords
EdgeGeodesics ==
  {G(0, 1, 0), G(0, -1, 0), G(3, 5, 0), G(0, 1, 1), G(1, -2, 2), G(1, 1, 0),
   G(2, 1, 0)}

\* the endpoints an edge on g may have: None or a point of the line
EndpointsOn(g) == {None} \cup {parametrize_lambda(g, l) : l \in Lambdas}

RestrictPlans ==
  UNION {{Plan("_restrict_to_disk", <<g, start, end>>) :
            start \in EndpointsOn(g), end \in EndpointsOn(g)} :
         g \in EdgeGeodesics}

\* the client calls H.segment(g, start, end, check=False)._restrict_to_disk()
RestrictToDisk ==
  /\ plan.kind = "_restrict_to_disk"
  /\ results = <<>>
  /\ results' = <<restrict_to_disk(plan.operands[1], plan.operands[2],
                                   plan.operands[3])>>
  /\ UNCHANGED <<plan, stack>>

\* the edges H.segment(g, start, end) with check=True allows, their
\* endpoints in the order of the line
Edges ==
  UNION {{EdgeValue(g, e[1], e[2]) :
            e \in {e \in EndpointsOn(g) \X EndpointsOn(g) :
                     /\ e[1] # None \/ e[2] # None
                     /\ e[1] # None => point_is_valid(e[1])
                     /\ e[2] # None => point_is_valid(e[2])
                     /\ e[1] # None /\ e[2] # None
                          => Lt(parametrize_point(g, e[1]),
                                parametrize_point(g, e[2]))}} :
         g \in {g \in EdgeGeodesics : geodesic_is_valid(g)}}

\* the convex sets that are asked for their half spaces
ConvexSets ==
  {HalfSpaceValue(h) : h \in HalfSpaces}
  \cup {GeodesicValue(g) : g \in {g \in EdgeGeodesics : geodesic_is_valid(g)}}
  \cup {PointValue(p) : p \in {p \in Coordinates \X Coordinates :
                                 point_is_valid(p)}}
  \cup Edges

HalfSpacesPlans == {Plan("_half_spaces", <<S>>) : S \in ConvexSets}

\* the client calls S._half_spaces()
HalfSpacesOf ==
  /\ plan.kind = "_half_spaces"
  /\ results = <<>>
  /\ results' = <<half_spaces_of(plan.operands[1])>>
  /\ UNCHANGED <<plan, stack>>

InitSets ==
  /\ \/ plan \in RestrictPlans
     \/ plan \in HalfSpacesPlans
  /\ results = <<>>
  /\ stack = <<>>

NextSets ==
  \/ RestrictToDisk
  \/ HalfSpacesOf

SpecSets == InitSets /\ [][NextSets]_vars

\* the parameter t of the point p of the boundary line of g
ParameterOf(g, p) ==
  IF g[3] # Zero
  THEN Div(Sub(p[1], PointOfLine(g, Zero)[1]), g[3])
  ELSE Div(Sub(PointOfLine(g, Zero)[2], p[2]), g[2])

\* the square of the parameter of the ends of the chord of g
ChordEndSquared(g) ==
  Div(Sub(NormSquared(g), Mul(g[1], g[1])), Mul(NormSquared(g), NormSquared(g)))

\* the place of the parameter t: -2 before the chord, -1 at its first
\* end, 0 inside, 1 at its last end, 2 behind the chord
PlaceOnChord(g, t) ==
  Sgn(t) * (IF Lt(ChordEndSquared(g), Mul(t, t)) THEN 2
            ELSE IF ChordEndSquared(g) = Mul(t, t) THEN 1 ELSE 0)

\* the place where the segment of an edge begins and where it ends; it
\* runs from start in the direction (c, -b) of the line up to end, and on
\* without end when there is no end or end comes before start
PlaceOfStart(g, start) ==
  IF start = None THEN -2 ELSE PlaceOnChord(g, ParameterOf(g, start))

PlaceOfEnd(g, start, end) ==
  IF end = None THEN 2
  ELSE IF start # None /\ Lt(ParameterOf(g, end), ParameterOf(g, start)) THEN 2
  ELSE PlaceOnChord(g, ParameterOf(g, end))

\* C28: HyperbolicEdge._restrict_to_disk returns the empty set, a point, a
\* geodesic or an edge; it returns the empty set when the line is no chord
\* or the segment lies wholly outside the closed unit disk; a point
\* returned has x*x + y*y <= 1, and so has every endpoint of an edge
\* returned; when start and end coincide it returns that point if it is
\* in the closed disk and the empty set otherwise; when neither endpoint
\* survives it returns the geodesic.
C28_RestrictToDisk ==
  plan.kind = "_restrict_to_disk" /\ Len(results) = 1
    => LET g == plan.operands[1]
           start == plan.operands[2]
           end == plan.operands[3]
           first == PlaceOfStart(g, start)
           last == PlaceOfEnd(g, start, end)
           r == results[1]
       IN  /\ r.kind \in {"empty", "point", "geodesic", "edge"}
           /\ ~geodesic_is_valid(g) \/ first = 2 \/ last = -2 => r = empty_set
           /\ r.kind = "point" => point_is_valid(r.point)
           /\ r.kind = "edge"
                => /\ r.start # None => point_is_valid(r.start)
                   /\ r.end # None => point_is_valid(r.end)
                   /\ r.start # None \/ r.end # None
           /\ geodesic_is_valid(g) /\ start # None /\ start = end
                => r = IF point_is_valid(start) THEN PointValue(start)
                       ELSE empty_set
           /\ geodesic_is_valid(g) /\ first < 0 /\ last > 0
                => r = GeodesicValue(g)

\* the edge on 3 + 5x = 0 from (-3/5, 1) outside the disk to the ideal
\* point (-3/5, -4/5) has been restricted to the geodesic itself
C28_Witness ==
  /\ plan.kind = "_restrict_to_disk" /\ Len(results) = 1
  /\ plan.operands = <<G(3, 5, 0), <<Rat(-3, 5), Q(1)>>,
                       <<Rat(-3, 5), Rat(-4, 5)>> >>
  /\ results[1] = GeodesicValue(G(3, 5, 0))

\* C29: for every half space, geodesic, finite point, ideal point and edge
\* S, S._half_spaces() returns a list that is sorted by _normal_lt, holds
\* only valid half spaces (b*b + c*c > a*a), and whose intersection within
\* the closed unit disk is exactly S; the list of a finite point has 3 half
\* spaces and the list of an ideal point 2, and the point is the only point
\* of the closed disk that lies in all of them.
C29_HalfSpacesOfASet ==
  plan.kind = "_half_spaces" /\ Len(results) = 1
    => LET S == plan.operands[1]
           half_spaces == results[1].list
       IN  /\ results[1].error = ""
           /\ SortedByNormalLt(half_spaces)
           /\ \A k \in 1..Len(half_spaces) : geodesic_is_valid(half_spaces[k])
           /\ SameSet(half_spaces, AsSet(S))
           /\ S.kind = "point"
                => /\ Len(half_spaces) = IF is_finite(S.point) THEN 3 ELSE 2
                   /\ KindOfSet(half_spaces) = "point"
                   /\ S.point \in Vertices(half_spaces)

(***************************************************************************)
(* C30: the two not-implemented conditions of the reduction, "cannot model *)
(* intersection of no half spaces yet" of _reduce and "there is no convex  *)
(* set to represent the full space yet" of _reduce_unit_disk, are raised   *)
(* only for an empty input: intersection() of no subsets and _reduce([])   *)
(* raise NotImplementedError, _reduce_euclidean_non_empty([]) raises       *)
(* ValueError, and for a non-empty list of half spaces                     *)
(* _reduce_trivially_redundant leaves a non-empty list, so that the first  *)
(* step of _reduce does not end the call, intersection of one half space   *)
(* is that half space, and _reduce_unit_disk never ends its loop with      *)
(* is_empty and is_point both false and no required half space.            *)
(***************************************************************************)
C30_NotImplementedOnlyWhenEmpty ==
  /\ plan.kind \in {"_reduce", "intersection"} /\ plan.operands = <<>>
       /\ Len(results) = 1
       => results[1].error = "NotImplementedError"
  /\ plan.kind = "_reduce_euclidean_non_empty" /\ plan.operands = <<>>
       /\ Len(results) = 1
       => results[1].error = "ValueError"
  /\ plan.kind = "_reduce_trivially_redundant" /\ Len(results) = 1
       => (results[1] = <<>> <=> plan.operands = <<>>)
  /\ plan.kind = "_reduce" /\ plan.operands # <<>>
       => ~reduce(<<>>, plan.operands).finished
  /\ plan.kind = "intersection" /\ plan.operands # <<>> /\ Len(results) = 1
       => results[1] = plan.operands[1]
  /\ stack # <<>> /\ Last(stack).pc = "disk"
       /\ Last(stack).i > Len(Last(stack).half_spaces)
       => /\ Last(stack).is_empty \/ Last(stack).is_point.flag # "False"
             \/ Last(stack).required_half_spaces # <<>>
          /\ disk_result(stack) # Raise("NotImplementedError")

\* _reduce has turned a non-empty list of half spaces into a polygon
C30_Witness ==
  /\ plan.kind = "_reduce"
  /\ plan.operands # <<>>
  /\ Len(results) = 1
  /\ results[1].kind = "polygon"

====
